---- MODULE Spec2Model ----
(***************************************************************************)
(* Model of the task-scheduling and snapshot-publishing engine of the      *)
(* congratulator bot: the PeriodicTask trait (schedule / is_finished /     *)
(* cancel), the three concrete tasks (PeriodicDataFetcher,                 *)
(* PeriodicNotifier, PeriodicSummarySender), the TaskManager registry, the *)
(* shared RwLock<Dashboard> and the query handlers that read it.           *)
(***************************************************************************)
EXTENDS Integers, Sequences, FiniteSets, TLC

\* ---------------------------------------------------------------- bounds
\* Jobs spawned (tokio::spawn in perform_task) over all tasks.
MaxSpawns == 3
\* Entity tables one ingestion cycle accumulates before the terminator.
MaxTables == 2

\* Contents a fetched entity table can have (old data / new data).
TableVals == {1, 2}
\* Values of the `when` argument of schedule: the variants of PeriodicTimeUtc.
Whens == {"EveryDay", "EveryMin"}

\* ---------------------------------------------------------------- names
\* The three tasks Congratulator::new creates, in creation order.
TaskOrder == <<"fetcher", "notifier", "sender">>
TaskIds == {TaskOrder[i] : i \in 1..Len(TaskOrder)}
\* Query handlers (Congratulator::summary) the dispatcher runs concurrently.
Handlers == {1}

\* Option::None for `handle` and for `when`.
None == 0
NoWhen == "None"

\* Positions at which a job's future is parked on an .await (Pending).
Suspended == {"sleeping", "titles", "window", "wlock", "rlock", "sending"}
\* Positions inside a poll: synchronous code between two awaits.
Running == {"locked", "reading"}

VARIABLES
  when,       \* [TaskIds -> Whens \cup {NoWhen}]   PeriodicTask::when
  handle,     \* [TaskIds -> Nat]  index of the task's JoinHandle in jobs[t], None if absent
  jobs,       \* [TaskIds -> Seq(job)]  every job tokio::spawn created for the task
  tasks,      \* TaskManager::tasks, the registry (sequence of task ids)
  dashboard,  \* the Dashboard behind the RwLock: sequence of entity tables
  rw,         \* the tokio RwLock: readers, writers, FIFO queue of waiters
  hpc,        \* [Handlers -> position] of each query handler
  hseen,      \* [Handlers -> Seq] tables a handler has read so far
  fetched,    \* history: the Dashboard the last successful fetch_dashboard returned
  last,       \* history: the task whose execution ended last, and whether it succeeded
  ret,        \* value the last call of schedule returned
  finalized,  \* registry entries the loop of finalize_tasks has gone through
  score_tables, \* Dashboard::score_tables of a Dashboard of its own: Option<Vec<ScoreTable>>
  init_arg,   \* argument of the last call of Dashboard::initialize
  init_ret,   \* value the last call of Dashboard::initialize returned
  init_calls, \* history: calls of Dashboard::initialize made
  request,    \* a ScoreTableRequest (the window cursor)
  advances,   \* history: calls of next_table_request made on it
  built,      \* Option: what the last call of ScoreTableRequest::build returned
  cycle,      \* an ingestion cycle (fetch_dashboard): position, tables, result
  titles,     \* Option: the response of the cycle's titles fetch
  block,      \* Option: the response of the last window fetch
  skip_arg,   \* the flag a call of fetch_score_table is given
  score_table, \* Option: what that call returned
  row,        \* a row of cells handed to ScoreTableRecord::from_vec
  parsed,     \* what the calls of from_vec on it returned, in call order
  snapshot,   \* Dashboard::score_tables of the Dashboard the queries read
  answers,    \* the queries made of it and what each returned, in call order
  now,        \* the date current_time_utc returns: [year, month]
  title_names, \* what the calls of derive_title_name returned, in call order
  boot,       \* Congratulator::new: its position and the tasks it has scheduled
  shared,     \* Option: the Dashboard behind the lock Congratulator::new creates
  observed,   \* history: the Dashboards read through the lock, and by whom
  source      \* the blocks of the sheet, left to right, a cycle's windows show

\* Option<T>: None and Some(x).
NoValue == <<>>
Some(x) == <<x>>
IsSome(o) == o # <<>>
Unwrap(o) == o[1]

initVars == <<score_tables, init_arg, init_ret, init_calls>>
cursorVars == <<request, advances, built>>
ingestVars == <<cycle, titles, block, skip_arg, score_table>>
parseVars == <<row, parsed>>
queryVars == <<snapshot, answers>>
clockVars == <<now, title_names>>
bootVars == <<boot, shared, observed>>

\* The variables the scheduling engine's own steps leave alone.
dataVars == <<finalized, initVars, cursorVars, ingestVars, parseVars, queryVars, clockVars,
             bootVars, source>>

engineVars == <<when, handle, jobs, tasks, dashboard, rw, hpc, hseen, fetched, last, ret>>

vars == <<when, handle, jobs, tasks, dashboard, rw, hpc, hseen, fetched, last, ret, dataVars>>

\* All dashboards an ingestion cycle can build within the bounds.
RECURSIVE SeqsUpTo(_)
SeqsUpTo(n) ==
  IF n = 0 THEN {<<>>}
  ELSE LET S == SeqsUpTo(n - 1)
       IN S \cup {Append(s, v) : s \in {x \in S : Len(x) = n - 1}, v \in TableVals}

\* Results the initial ingestion can have.
InitialDashboards == SeqsUpTo(MaxTables)

IsPrefix(s, t) == Len(s) <= Len(t) /\ \A i \in 1..Len(s) : s[i] = t[i]

\* A freshly spawned job: the tokio_schedule loop, asleep until its first tick.
\* tables: what the ingestion loop has accumulated (then latest_dashboard);
\* seen: the tables read through a read guard; base: history, the published
\* Dashboard when the execution started.
NewJob == [pc |-> "sleeping", st |-> "live", tables |-> <<>>, seen |-> <<>>, base |-> <<>>]
\* A job whose future has been dropped (JoinHandle::is_finished() is true).
DoneJob == [pc |-> "sleeping", st |-> "finished", tables |-> <<>>, seen |-> <<>>, base |-> <<>>]

Job(t, i) == jobs[t][i]
Spawned == Len(jobs["fetcher"]) + Len(jobs["notifier"]) + Len(jobs["sender"])

\* ---------------------------------------------------------------- RwLock
\* tokio::sync::RwLock<Dashboard>: many readers or one writer, waiters served
\* first-in first-out.
FreeLock == [readers |-> {}, writers |-> {}, queue |-> <<>>]

\* A variant of the write condition that does not look at the readers.
CanWriteIgnoringReaders(l) == l.writers = {}

CanRead(l) == l.writers = {}
CanWrite(l) == l.writers = {} /\ l.readers = {}

\* A variant of read() that is taken whenever no writer holds the lock, waiting
\* writers or not.
RequestReadBarging(l, c) ==
  IF l.writers = {}
  THEN [l EXCEPT !.readers = @ \cup {c}]
  ELSE [l EXCEPT !.queue = Append(@, c)]

\* dashboard.read().await, first poll: taken at once when nobody waits.
RequestRead(l, c) ==
  IF l.queue = <<>> /\ CanRead(l)
  THEN [l EXCEPT !.readers = @ \cup {c}]
  ELSE [l EXCEPT !.queue = Append(@, c)]

\* dashboard.write().await, first poll.
RequestWrite(l, c) ==
  IF l.queue = <<>> /\ CanWrite(l)
  THEN [l EXCEPT !.writers = @ \cup {c}]
  ELSE [l EXCEPT !.queue = Append(@, c)]

RECURSIVE Without(_, _)
Without(q, c) ==
  IF q = <<>> THEN <<>>
  ELSE IF Head(q) = c THEN Without(Tail(q), c)
  ELSE <<Head(q)>> \o Without(Tail(q), c)

\* Dropping a guard or a pending acquire future gives everything back.
Release(l, c) ==
  [readers |-> l.readers \ {c}, writers |-> l.writers \ {c}, queue |-> Without(l.queue, c)]

\* ---------------------------------------------------------------- PeriodicTask
\* A variant of is_finished that takes an aborted job for a finished one.
AbortedIsFinished(js, t) ==
  IF handle[t] = None THEN TRUE ELSE js[t][handle[t]].st # "live"

\* PeriodicTask::is_finished on the task's handle, jobs being in state js:
\* no handle yet, or the handle's job has ended.
finished_in(js, t) ==
  IF handle[t] = None THEN TRUE ELSE js[t][handle[t]].st = "finished"

is_finished(t) == finished_in(jobs, t)

\* submit_job (all three impls): remember `when`, spawn the periodic job and
\* keep its JoinHandle.
submit_job(t, w) ==
  /\ when' = [when EXCEPT ![t] = w]
  /\ jobs' = [jobs EXCEPT ![t] = Append(@, NewJob)]
  /\ handle' = [handle EXCEPT ![t] = Len(jobs[t]) + 1]

\* A variant of schedule that stores `when` before it looks at the guard.
scheduleStoresFirst(t, w) ==
  /\ when' = [when EXCEPT ![t] = w]
  /\ IF ~is_finished(t)
     THEN /\ ret' = FALSE
          /\ UNCHANGED <<handle, jobs>>
     ELSE /\ jobs' = [jobs EXCEPT ![t] = Append(@, NewJob)]
          /\ handle' = [handle EXCEPT ![t] = Len(jobs[t]) + 1]
          /\ ret' = TRUE

\* A variant of schedule that submits the job without looking at the guard.
scheduleUnguarded(t, w) ==
  /\ submit_job(t, w)
  /\ ret' = TRUE

\* PeriodicTask::schedule: rejected while the previous job has not finished.
schedule(t, w) ==
  IF ~is_finished(t)
  THEN /\ ret' = FALSE
       /\ UNCHANGED <<when, handle, jobs>>
  ELSE /\ submit_job(t, w)
       /\ ret' = TRUE

\* A variant of abort that only raises a flag the job would have to look at.
abortFlagOnly(j) ==
  IF j.st = "live" THEN [j EXCEPT !.st = "abortreq"] ELSE j

\* JoinHandle::abort on a job: a parked job is never polled again and waits
\* for the runtime to drop it; a job inside a poll runs on to its next await.
abort(j) ==
  IF j.st = "live"
  THEN [j EXCEPT !.st = IF j.pc \in Suspended THEN "cancelled" ELSE "abortreq"]
  ELSE j

\* A variant of cancel without the is_finished guard, aborting whatever job
\* the handle names.
cancelUnguarded(js, t) ==
  IF handle[t] = None
  THEN js
  ELSE [js EXCEPT ![t][handle[t]].st =
          IF js[t][handle[t]].pc \in Suspended THEN "cancelled" ELSE "abortreq"]

\* PeriodicTask::cancel: the jobs after calling cancel on task t in state js.
cancel(js, t) ==
  IF ~finished_in(js, t)
  THEN [js EXCEPT ![t][handle[t]] = abort(@)]
  ELSE js

\* A job reaching an await that returns Pending: a requested abort lands here.
Park(j) == IF j.st = "abortreq" THEN [j EXCEPT !.st = "cancelled"] ELSE j

\* A variant of the timer loop that an abort does not stop.
ArmedAfterAbort(j) == j.pc = "sleeping" /\ j.st # "finished"

\* perform_task: the job sleeps in its timer loop and its timer can fire.
Armed(j) == j.st = "live" /\ j.pc = "sleeping"

\* The job's code may take a step: it was not cancelled while parked.
Runnable(j) == j.st \in {"live", "abortreq"}

\* ---------------------------------------------------------------- caller operations
Registered(t) == \E k \in 1..Len(tasks) : tasks[k] = t

\* A direct call of schedule by the owner of a task not yet handed to the manager.
Schedule(t, w) ==
  /\ ~Registered(t)
  /\ is_finished(t) => Spawned < MaxSpawns
  /\ schedule(t, w)
  /\ UNCHANGED <<tasks, dashboard, rw, hpc, hseen, fetched, last, dataVars>>

\* TaskManager::schedule_task as Congratulator::new calls it, in creation
\* order: schedule the task, then move it into the registry.
ScheduleTask(t, w) ==
  /\ Len(tasks) < Len(TaskOrder)
  /\ t = TaskOrder[Len(tasks) + 1]
  /\ is_finished(t) => Spawned < MaxSpawns
  /\ schedule(t, w)
  /\ tasks' = Append(tasks, t)
  /\ UNCHANGED <<dashboard, rw, hpc, hseen, fetched, last, dataVars>>

\* A call of cancel on a task (by its owner or through the registry).
Cancel(t) ==
  /\ jobs' = cancel(jobs, t)
  /\ UNCHANGED <<when, handle, tasks, dashboard, rw, hpc, hseen, fetched, last, ret, dataVars>>

\* PeriodicTask::task_type as the three constructors set it.
task_type(t) == IF t = "fetcher" THEN "Fetcher" ELSE "Notifier"

\* The elements of sequence s that are in set S, in the order of s
\* (iter().filter(..).collect()).
RECURSIVE Filter(_, _)
Filter(s, S) ==
  IF s = <<>> THEN <<>>
  ELSE IF Head(s) \in S THEN <<Head(s)>> \o Filter(Tail(s), S)
  ELSE Filter(Tail(s), S)

\* TaskManager::tasks(task_type): the registry entries of that type.
tasks_by_type(ty) == Filter(tasks, {t \in TaskIds : task_type(t) = ty})

\* A variant of finalize_tasks that cancels the notification tasks only.
FinalizeNotifiers ==
  /\ Len(tasks) = Len(TaskOrder)
  /\ finalized < Len(tasks)
  /\ jobs' = IF task_type(tasks[finalized + 1]) = "Notifier"
             THEN cancel(jobs, tasks[finalized + 1])
             ELSE jobs
  /\ finalized' = finalized + 1
  /\ UNCHANGED <<when, handle, tasks, dashboard, rw, hpc, hseen, fetched, last, ret>>
  /\ UNCHANGED <<initVars, cursorVars, ingestVars, parseVars, queryVars, clockVars, bootVars, source>>

\* Drop for Congratulator -> TaskManager::finalize_tasks, one turn of its loop:
\* cancel the next task of the registry. The Congratulator exists once
\* Congratulator::new has registered its three tasks.
FinalizeTasks ==
  /\ Len(tasks) = Len(TaskOrder)
  /\ finalized < Len(tasks)
  /\ jobs' = cancel(jobs, tasks[finalized + 1])
  /\ finalized' = finalized + 1
  /\ UNCHANGED <<when, handle, tasks, dashboard, rw, hpc, hseen, fetched, last, ret>>
  /\ UNCHANGED <<initVars, cursorVars, ingestVars, parseVars, queryVars, clockVars, bootVars, source>>

\* The runtime drops the future of a cancelled job: its guards and pending
\* acquires are released and the JoinHandle reports finished.
Drop(t, i) ==
  /\ i \in 1..Len(jobs[t])
  /\ Job(t, i).st = "cancelled"
  /\ jobs' = [jobs EXCEPT ![t][i] = DoneJob]
  /\ rw' = Release(rw, <<t, i>>)
  /\ UNCHANGED <<when, handle, tasks, dashboard, hpc, hseen, fetched, last, ret, dataVars>>

\* ---------------------------------------------------------------- timer
\* perform_task / tokio_schedule: the timer of a job fires and the job calls
\* its work closure, which runs up to its first await.
Tick(t, i) ==
  /\ i \in 1..Len(jobs[t])
  /\ Armed(Job(t, i))
  /\ IF t = "sender"
     THEN LET l == RequestRead(rw, <<t, i>>)
          IN /\ rw' = l
             /\ jobs' = [jobs EXCEPT ![t][i] =
                           [@ EXCEPT !.pc = IF <<t, i>> \in l.readers THEN "reading" ELSE "rlock",
                                     !.seen = <<>>]]
     ELSE /\ jobs' = [jobs EXCEPT ![t][i] =
                           IF t = "fetcher"
                           THEN [@ EXCEPT !.pc = "titles", !.base = dashboard]
                           ELSE [@ EXCEPT !.pc = "sending"]]
          /\ UNCHANGED rw
  /\ UNCHANGED <<when, handle, tasks, dashboard, hpc, hseen, fetched, last, ret, dataVars>>

\* ---------------------------------------------------------------- PeriodicDataFetcher
\* A variant of the timer loop that runs the work once and returns.
ExitLoop(j) ==
  [j EXCEPT !.pc = "sleeping", !.st = "finished", !.tables = <<>>, !.seen = <<>>, !.base = <<>>]

\* An execution of a task's work ends: the job is back in the timer loop.
\* Locals of the execution are gone.
EndExecution(j) ==
  Park([j EXCEPT !.pc = "sleeping", !.tables = <<>>, !.seen = <<>>, !.base = <<>>])

\* The record of an ended execution of task t.
Outcome(t, ok) == [task |-> t, ok |-> ok]

\* A variant of the Err arm that publishes what the failed cycle had built.
FailUpdatePublishing(i) ==
  /\ jobs' = [jobs EXCEPT !["fetcher"][i] =
                [@ EXCEPT !.pc = "sleeping", !.tables = <<>>, !.seen = <<>>, !.base = <<>>]]
  /\ dashboard' = Job("fetcher", i).tables
  /\ last' = [task |-> "fetcher", ok |-> FALSE]
  /\ UNCHANGED <<when, handle, tasks, rw, hpc, hseen, fetched, ret, dataVars>>

\* do_update, Err arm of `match hub.fetch_dashboard().await`: log and return.
\* Nothing the failed cycle built is kept.
FailUpdate(i) ==
  /\ jobs' = [jobs EXCEPT !["fetcher"][i] = EndExecution(@)]
  /\ last' = Outcome("fetcher", FALSE)
  /\ UNCHANGED <<when, handle, tasks, dashboard, rw, hpc, hseen, fetched, ret, dataVars>>

\* A variant of do_update that asks for the write lock as soon as the titles
\* are there, before the windows are fetched.
TitlesReturnLocking(i, ok) ==
  /\ i \in 1..Len(jobs["fetcher"])
  /\ Job("fetcher", i).pc = "titles"
  /\ Runnable(Job("fetcher", i))
  /\ IF ok
     THEN /\ jobs' = [jobs EXCEPT !["fetcher"][i] = [@ EXCEPT !.pc = "window", !.tables = <<>>]]
          /\ rw' = RequestWrite(rw, <<"fetcher", i>>)
          /\ UNCHANGED <<when, handle, tasks, dashboard, hpc, hseen, fetched, last, ret, dataVars>>
     ELSE FailUpdate(i)

\* fetch_dashboard: the titles fetch returns. ok: the sheet id was resolved and
\* the window loop starts with no tables; otherwise (remote error, EmptySheets,
\* NotFoundSheetId) the cycle fails.
TitlesReturn(i, ok) ==
  /\ i \in 1..Len(jobs["fetcher"])
  /\ Job("fetcher", i).pc = "titles"
  /\ Runnable(Job("fetcher", i))
  /\ IF ok
     THEN /\ jobs' = [jobs EXCEPT !["fetcher"][i] = [@ EXCEPT !.pc = "window", !.tables = <<>>]]
          /\ UNCHANGED <<when, handle, tasks, dashboard, rw, hpc, hseen, fetched, last, ret, dataVars>>
     ELSE FailUpdate(i)

\* fetch_dashboard loop, Ok(score_table) arm: push the table, advance the
\* request and fetch the next window.
WindowTable(i, v) ==
  /\ i \in 1..Len(jobs["fetcher"])
  /\ Job("fetcher", i).pc = "window"
  /\ Runnable(Job("fetcher", i))
  /\ Len(Job("fetcher", i).tables) < MaxTables
  /\ jobs' = [jobs EXCEPT !["fetcher"][i].tables = Append(@, v)]
  /\ UNCHANGED <<when, handle, tasks, dashboard, rw, hpc, hseen, fetched, last, ret, dataVars>>

\* fetch_dashboard loop, any other Err arm: the cycle returns the error.
WindowError(i) ==
  /\ i \in 1..Len(jobs["fetcher"])
  /\ Job("fetcher", i).pc = "window"
  /\ Runnable(Job("fetcher", i))
  /\ FailUpdate(i)

\* fetch_dashboard loop, EmptyPersonNameCell arm: the cycle succeeds with the
\* tables accumulated; do_update goes on to dashboard.write().await.
WindowTerminator(i) ==
  /\ i \in 1..Len(jobs["fetcher"])
  /\ Job("fetcher", i).pc = "window"
  /\ Runnable(Job("fetcher", i))
  /\ LET l == RequestWrite(rw, <<"fetcher", i>>)
     IN /\ rw' = l
        /\ jobs' = [jobs EXCEPT !["fetcher"][i] =
                      IF <<"fetcher", i>> \in l.writers
                      THEN [@ EXCEPT !.pc = "locked"]
                      ELSE Park([@ EXCEPT !.pc = "wlock"])]
  /\ fetched' = Job("fetcher", i).tables
  /\ UNCHANGED <<when, handle, tasks, dashboard, hpc, hseen, last, ret, dataVars>>

\* do_update: the queued dashboard.write() is granted.
AcquireWrite(i) ==
  /\ i \in 1..Len(jobs["fetcher"])
  /\ Job("fetcher", i).pc = "wlock"
  /\ Runnable(Job("fetcher", i))
  /\ rw.queue # <<>>
  /\ Head(rw.queue) = <<"fetcher", i>>
  /\ CanWrite(rw)
  /\ rw' = [rw EXCEPT !.writers = @ \cup {<<"fetcher", i>>}, !.queue = Tail(@)]
  /\ jobs' = [jobs EXCEPT !["fetcher"][i].pc = "locked"]
  /\ UNCHANGED <<when, handle, tasks, dashboard, hpc, hseen, fetched, last, ret, dataVars>>

\* A variant of the assignment that fills the Dashboard only while it is
\* empty, as Dashboard::initialize would.
AssignIfEmpty(i) ==
  /\ i \in 1..Len(jobs["fetcher"])
  /\ Job("fetcher", i).pc = "locked"
  /\ Runnable(Job("fetcher", i))
  /\ dashboard' = IF dashboard = <<>> THEN Job("fetcher", i).tables ELSE dashboard
  /\ rw' = Release(rw, <<"fetcher", i>>)
  /\ jobs' = [jobs EXCEPT !["fetcher"][i] = EndExecution(@)]
  /\ last' = Outcome("fetcher", TRUE)
  /\ UNCHANGED <<when, handle, tasks, hpc, hseen, fetched, ret, dataVars>>

\* do_update: *locked_dashboard = latest_dashboard, one whole-value
\* assignment; the write guard goes out of scope and the execution ends.
AssignDashboard(i) ==
  /\ i \in 1..Len(jobs["fetcher"])
  /\ Job("fetcher", i).pc = "locked"
  /\ Runnable(Job("fetcher", i))
  /\ dashboard' = Job("fetcher", i).tables
  /\ rw' = Release(rw, <<"fetcher", i>>)
  /\ jobs' = [jobs EXCEPT !["fetcher"][i] = EndExecution(@)]
  /\ last' = Outcome("fetcher", TRUE)
  /\ UNCHANGED <<when, handle, tasks, hpc, hseen, fetched, ret, dataVars>>

\* ---------------------------------------------------------------- PeriodicNotifier
\* do_notify: bot.send_message returns; Ok and Err are both only logged.
NotifyReturn(i, ok) ==
  /\ i \in 1..Len(jobs["notifier"])
  /\ Job("notifier", i).pc = "sending"
  /\ Runnable(Job("notifier", i))
  /\ jobs' = [jobs EXCEPT !["notifier"][i] = EndExecution(@)]
  /\ last' = Outcome("notifier", ok)
  /\ UNCHANGED <<when, handle, tasks, dashboard, rw, hpc, hseen, fetched, ret, dataVars>>

\* ---------------------------------------------------------------- PeriodicSummarySender
\* Dashboard::summary on the tables read: the empty-participants error when
\* there is no entity, else the digest.
summary(seen) == IF seen = <<>> THEN "EmptyParticipants" ELSE "Ok"

\* send_summary: the queued dashboard.read() is granted.
AcquireRead(i) ==
  /\ i \in 1..Len(jobs["sender"])
  /\ Job("sender", i).pc = "rlock"
  /\ Runnable(Job("sender", i))
  /\ rw.queue # <<>>
  /\ Head(rw.queue) = <<"sender", i>>
  /\ CanRead(rw)
  /\ rw' = [rw EXCEPT !.readers = @ \cup {<<"sender", i>>}, !.queue = Tail(@)]
  /\ jobs' = [jobs EXCEPT !["sender"][i].pc = "reading"]
  /\ UNCHANGED <<when, handle, tasks, dashboard, hpc, hseen, fetched, last, ret, dataVars>>

\* send_summary: locked_dashboard.summary(&by_date) visits the next table
\* through the read guard.
ReadTable(i) ==
  /\ i \in 1..Len(jobs["sender"])
  /\ Job("sender", i).pc = "reading"
  /\ Runnable(Job("sender", i))
  /\ Len(Job("sender", i).seen) < Len(dashboard)
  /\ jobs' = [jobs EXCEPT !["sender"][i].seen = Append(@, dashboard[Len(@) + 1])]
  /\ UNCHANGED <<when, handle, tasks, dashboard, rw, hpc, hseen, fetched, last, ret, dataVars>>

\* A variant of the end of summary that sends a message in either arm.
ReadDoneSending(i) ==
  /\ i \in 1..Len(jobs["sender"])
  /\ Job("sender", i).pc = "reading"
  /\ Runnable(Job("sender", i))
  /\ Len(Job("sender", i).seen) >= Len(dashboard)
  /\ jobs' = [jobs EXCEPT !["sender"][i] = Park([@ EXCEPT !.pc = "sending"])]
  /\ UNCHANGED <<when, handle, tasks, dashboard, rw, hpc, hseen, fetched, last, ret, dataVars>>

\* send_summary: summary returned. Ok: the message is sent, the read guard
\* still alive across the await. EmptyParticipants: warn, the guard is dropped
\* and the execution ends.
ReadDone(i) ==
  /\ i \in 1..Len(jobs["sender"])
  /\ Job("sender", i).pc = "reading"
  /\ Runnable(Job("sender", i))
  /\ Len(Job("sender", i).seen) >= Len(dashboard)
  /\ IF summary(Job("sender", i).seen) = "Ok"
     THEN /\ jobs' = [jobs EXCEPT !["sender"][i] = Park([@ EXCEPT !.pc = "sending"])]
          /\ UNCHANGED rw
          /\ UNCHANGED last
     ELSE /\ jobs' = [jobs EXCEPT !["sender"][i] = EndExecution(@)]
          /\ rw' = Release(rw, <<"sender", i>>)
          /\ last' = Outcome("sender", TRUE)
  /\ UNCHANGED <<when, handle, tasks, dashboard, hpc, hseen, fetched, ret, dataVars>>

\* send_summary: bot.send_message returns, its result is discarded (let _ =);
\* the read guard is dropped at the end of the function.
SummaryReturn(i, ok) ==
  /\ i \in 1..Len(jobs["sender"])
  /\ Job("sender", i).pc = "sending"
  /\ Runnable(Job("sender", i))
  /\ jobs' = [jobs EXCEPT !["sender"][i] = EndExecution(@)]
  /\ rw' = Release(rw, <<"sender", i>>)
  /\ last' = Outcome("sender", ok)
  /\ UNCHANGED <<when, handle, tasks, dashboard, hpc, hseen, fetched, ret, dataVars>>

\* ---------------------------------------------------------------- query handlers
Hid(h) == <<"handler", h>>

\* Congratulator::summary: a query arrives and asks for the read lock.
HandlerStart(h) ==
  /\ hpc[h] = "idle"
  /\ LET l == RequestRead(rw, Hid(h))
     IN /\ rw' = l
        /\ hpc' = [hpc EXCEPT ![h] = IF Hid(h) \in l.readers THEN "reading" ELSE "rlock"]
  /\ hseen' = [hseen EXCEPT ![h] = <<>>]
  /\ UNCHANGED <<when, handle, jobs, tasks, dashboard, fetched, last, ret, dataVars>>

\* Congratulator::summary: the queued read() is granted.
HandlerAcquire(h) ==
  /\ hpc[h] = "rlock"
  /\ rw.queue # <<>>
  /\ Head(rw.queue) = Hid(h)
  /\ CanRead(rw)
  /\ rw' = [rw EXCEPT !.readers = @ \cup {Hid(h)}, !.queue = Tail(@)]
  /\ hpc' = [hpc EXCEPT ![h] = "reading"]
  /\ UNCHANGED <<when, handle, jobs, tasks, dashboard, hseen, fetched, last, ret, dataVars>>

\* Congratulator::summary: dashboard.summary(by_date) visits the next table.
HandlerRead(h) ==
  /\ hpc[h] = "reading"
  /\ Len(hseen[h]) < Len(dashboard)
  /\ hseen' = [hseen EXCEPT ![h] = Append(@, dashboard[Len(@) + 1])]
  /\ UNCHANGED <<when, handle, jobs, tasks, dashboard, rw, hpc, fetched, last, ret, dataVars>>

\* Congratulator::summary: both arms send a message while the guard is alive.
HandlerReadDone(h) ==
  /\ hpc[h] = "reading"
  /\ Len(hseen[h]) >= Len(dashboard)
  /\ hpc' = [hpc EXCEPT ![h] = "sending"]
  /\ UNCHANGED <<when, handle, jobs, tasks, dashboard, rw, hseen, fetched, last, ret, dataVars>>

\* Congratulator::summary: send_message returns (Ok, or Err through `?`); the
\* handler ends and its guard is dropped.
HandlerReturn(h) ==
  /\ hpc[h] = "sending"
  /\ hpc' = [hpc EXCEPT ![h] = "idle"]
  /\ hseen' = [hseen EXCEPT ![h] = <<>>]
  /\ rw' = Release(rw, Hid(h))
  /\ UNCHANGED <<when, handle, jobs, tasks, dashboard, fetched, last, ret, dataVars>>

\* ---------------------------------------------------------------- Dashboard
\* Calls of Dashboard::initialize made on one Dashboard.
MaxCalls == 3

\* A variant of initialize that stores the tables whatever the Dashboard holds.
initializeOverwrites(tabs) ==
  /\ init_calls < MaxCalls
  /\ score_tables' = Some(tabs)
  /\ init_ret' = (score_tables = NoValue)
  /\ init_arg' = tabs
  /\ init_calls' = init_calls + 1
  /\ UNCHANGED <<engineVars, finalized, bootVars, source, queryVars, clockVars, cursorVars, ingestVars, parseVars>>

\* Dashboard::initialize(score_tables): fills an empty Dashboard and returns
\* true; on a populated one logs an error and returns false.
initialize(tabs) ==
  /\ init_calls < MaxCalls
  /\ IF score_tables = NoValue
     THEN /\ score_tables' = Some(tabs)
          /\ init_ret' = TRUE
     ELSE /\ UNCHANGED score_tables
          /\ init_ret' = FALSE
  /\ init_arg' = tabs
  /\ init_calls' = init_calls + 1
  /\ UNCHANGED <<engineVars, finalized, bootVars, source, queryVars, clockVars, cursorVars, ingestVars, parseVars>>

\* ---------------------------------------------------------------- ScoreTableRequest
COLUMN_OFFSET == 10
INITIAL_START_COLUMN_INDEX == 1
INITIAL_END_COLUMN_INDEX == 10
INITIAL_START_ROW_INDEX == 3
INITIAL_END_ROW_INDEX == 35

\* Calls of next_table_request made on one request.
MaxAdvances == 5
\* Sheet ids a request is built for.
SheetIds == {0, 7, 42}

\* i32 `+=` as a release build computes it (wrapping), written so that no
\* intermediate value leaves the 32-bit range.
MaxI32 == 2147483647
AddI32(a, b) ==
  IF b > 0 /\ a > MaxI32 - b THEN ((a - MaxI32) + (b - MaxI32)) - 2
  ELSE IF b < 0 /\ a < (-MaxI32 - 1) - b THEN ((a + MaxI32) + (b + MaxI32)) + 2
  ELSE a + b

\* ScoreTableRequest::new
NewRequest(sheet_id, include_grid_data) ==
  [ start_column_index |-> INITIAL_START_COLUMN_INDEX,
    end_column_index |-> INITIAL_END_COLUMN_INDEX,
    start_row_index |-> INITIAL_START_ROW_INDEX,
    end_row_index |-> INITIAL_END_ROW_INDEX,
    sheet_id |-> sheet_id,
    include_grid_data |-> include_grid_data ]

\* A variant of next_table_request that moves the window by its own width.
shift_by_width(req) ==
  [req EXCEPT !.start_column_index = AddI32(@, req.end_column_index - req.start_column_index),
              !.end_column_index = AddI32(@, req.end_column_index - req.start_column_index)]

\* A variant of next_table_request that forgets the end column.
shift_start_only(req) ==
  [req EXCEPT !.start_column_index = AddI32(@, COLUMN_OFFSET)]

\* ScoreTableRequest::next_table_request: the request after the call.
next_table_request(req) ==
  [req EXCEPT !.start_column_index = AddI32(@, COLUMN_OFFSET),
              !.end_column_index = AddI32(@, COLUMN_OFFSET)]

\* ScoreTableRequest::build: the GetSpreadsheetByDataFilterRequest of one
\* data filter with the request's grid range.
build(req) ==
  [ data_filters |-> << [ grid_range |->
        [ end_column_index |-> Some(req.end_column_index),
          end_row_index |-> Some(req.end_row_index),
          sheet_id |-> Some(req.sheet_id),
          start_column_index |-> Some(req.start_column_index),
          start_row_index |-> Some(req.start_row_index) ] ] >>,
    include_grid_data |-> Some(req.include_grid_data) ]

\* A call of next_table_request on the request.
NextTableRequest ==
  /\ advances < MaxAdvances
  /\ request' = next_table_request(request)
  /\ advances' = advances + 1
  /\ UNCHANGED built
  /\ UNCHANGED <<engineVars, finalized, bootVars, source, queryVars, clockVars, initVars, ingestVars, parseVars>>

\* A call of build on the request.
Build ==
  /\ built' = Some(build(request))
  /\ UNCHANGED <<request, advances>>
  /\ UNCHANGED <<engineVars, finalized, bootVars, source, queryVars, clockVars, initVars, ingestVars, parseVars>>

\* ---------------------------------------------------------------- row parser
\* Result<T, E>, and the outcome of a call that panics instead of returning.
Ok(v) == [kind |-> "Ok", value |-> v]
Err(e) == [kind |-> "Err", error |-> e]
Panic == [kind |-> "Panic"]

\* A String is the sequence of its characters.
Digits == <<"0", "1", "2", "3", "4", "5", "6", "7", "8", "9">>
DigitChars == {Digits[i] : i \in 1..Len(Digits)}
DigitVal(c) == (CHOOSE i \in 1..Len(Digits) : Digits[i] = c) - 1

\* str::trim.
RECURSIVE trim_start(_)
trim_start(s) ==
  IF s # <<>> /\ Head(s) = " " THEN trim_start(Tail(s)) ELSE s

RECURSIVE trim_end(_)
trim_end(s) ==
  IF s # <<>> /\ s[Len(s)] = " " THEN trim_end(SubSeq(s, 1, Len(s) - 1)) ELSE s

trim(s) == trim_end(trim_start(s))

\* The longest run of digits s starts with, at most max of them.
RECURSIVE LeadingDigits(_, _)
LeadingDigits(s, max) ==
  IF max = 0 \/ s = <<>> \/ Head(s) \notin DigitChars THEN <<>>
  ELSE <<Head(s)>> \o LeadingDigits(Tail(s), max - 1)

\* The number a run of digits spells (short runs only: no overflow check).
RECURSIVE Spelled(_, _)
Spelled(s, acc) ==
  IF s = <<>> THEN acc ELSE Spelled(Tail(s), acc * 10 + DigitVal(Head(s)))

\* str::parse::<i32>: an optional sign and at least one digit, every step
\* of the accumulation checked against the 32-bit range.
RECURSIVE checked_digits(_, _, _)
checked_digits(s, acc, negative) ==
  IF s = <<>> THEN Ok(acc)
  ELSE IF Head(s) \notin DigitChars THEN Err("InvalidDigit")
  ELSE LET d == DigitVal(Head(s))
           q == MaxI32 \div 10
           r == MaxI32 % 10
       IN  IF negative
           THEN IF acc > -q \/ (acc = -q /\ d <= r + 1)
                THEN checked_digits(Tail(s), acc * 10 - d, negative)
                ELSE Err("NegOverflow")
           ELSE IF acc < q \/ (acc = q /\ d <= r)
                THEN checked_digits(Tail(s), acc * 10 + d, negative)
                ELSE Err("PosOverflow")

parse_i32(s) ==
  IF s = <<>> THEN Err("Empty")
  ELSE IF Head(s) \in {"+", "-"}
  THEN IF Len(s) = 1 THEN Err("InvalidDigit")
       ELSE checked_digits(Tail(s), 0, Head(s) = "-")
  ELSE checked_digits(s, 0, FALSE)

\* str::parse::<f64> on decimal numerals: an optional sign, digits, an
\* optional point and digits, at least one digit in all.  An f64 is kept in
\* hundredths, so the numerals of the model carry at most two fractional
\* digits; exponents and the inf/nan spellings are not among its strings.
parse_f64(s) ==
  LET body == IF s # <<>> /\ Head(s) \in {"+", "-"} THEN Tail(s) ELSE s
      sign == IF s # <<>> /\ Head(s) = "-" THEN -1 ELSE 1
      whole == LeadingDigits(body, Len(body))
      rest == SubSeq(body, Len(whole) + 1, Len(body))
      frac == IF rest # <<>> /\ Head(rest) = "."
              THEN LeadingDigits(Tail(rest), Len(rest)) ELSE <<>>
      used == Len(whole) + (IF rest # <<>> /\ Head(rest) = "." THEN 1 + Len(frac) ELSE 0)
      hundredths == IF Len(frac) = 0 THEN 0
                    ELSE IF Len(frac) = 1 THEN 10 * Spelled(frac, 0)
                    ELSE Spelled(SubSeq(frac, 1, 2), 0)
  IN  IF s = <<>> THEN Err("Empty")
      ELSE IF used # Len(body) \/ Len(whole) + Len(frac) = 0 THEN Err("Invalid")
      ELSE Ok(sign * (100 * Spelled(whole, 0) + hundredths))

\* NaiveDate: a calendar date; NaiveDate::default() is 1970-01-01.
Date(y, m, d) == [year |-> y, month |-> m, day |-> d]
DefaultDate == Date(1970, 1, 1)

IsLeap(y) == (y % 4 = 0 /\ y % 100 # 0) \/ y % 400 = 0

DaysIn(y, m) ==
  IF m = 2 THEN (IF IsLeap(y) THEN 29 ELSE 28)
  ELSE IF m \in {4, 6, 9, 11} THEN 30 ELSE 31

\* NaiveDate::parse_from_str(s, "%d.%m.%Y"): each numeric field skips leading
\* blanks and takes up to its width of digits (two, two, four), the points are
\* literal, nothing may follow the year, and the fields must name a day of the
\* calendar.  Signed years are not among the model's strings.
parse_from_str(s) ==
  LET s1 == trim_start(s)
      dd == LeadingDigits(s1, 2)
      s2 == SubSeq(s1, Len(dd) + 1, Len(s1))
      s3 == IF s2 # <<>> THEN trim_start(Tail(s2)) ELSE <<>>
      mm == LeadingDigits(s3, 2)
      s4 == SubSeq(s3, Len(mm) + 1, Len(s3))
      s5 == IF s4 # <<>> THEN trim_start(Tail(s4)) ELSE <<>>
      yy == LeadingDigits(s5, 4)
      s6 == SubSeq(s5, Len(yy) + 1, Len(s5))
      d == Spelled(dd, 0)
      m == Spelled(mm, 0)
      y == Spelled(yy, 0)
  IN  IF s1 = <<>> THEN Err("TooShort")
      ELSE IF dd = <<>> THEN Err("Invalid")
      ELSE IF s2 = <<>> THEN Err("TooShort")
      ELSE IF Head(s2) # "." THEN Err("Invalid")
      ELSE IF s3 = <<>> THEN Err("TooShort")
      ELSE IF mm = <<>> THEN Err("Invalid")
      ELSE IF s4 = <<>> THEN Err("TooShort")
      ELSE IF Head(s4) # "." THEN Err("Invalid")
      ELSE IF s5 = <<>> THEN Err("TooShort")
      ELSE IF yy = <<>> THEN Err("Invalid")
      ELSE IF s6 # <<>> THEN Err("TooLong")
      ELSE IF m \notin 1..12 \/ d \notin 1..DaysIn(y, m) THEN Err("OutOfRange")
      ELSE Ok(Date(y, m, d))

\* ScoreTableRecordError: the variant, its inner variant, what it carries and
\* the cell index it names (0 where it names none).
RecordError(class, variant, info, index) ==
  [class |-> class, variant |-> variant, info |-> info, index |-> index]

\* google_sheets4's CellData, the fields the parser reads: formatted_value is
\* an Option<String>, effective_value an Option<ExtendedValue> with its
\* Option<f64> number_value, effective_format an Option<CellFormat> with its
\* Option<NumberFormat>, whose type_ is an Option<String>.
Cell(formatted_value, effective_value, effective_format) ==
  [ formatted_value |-> formatted_value,
    effective_value |-> effective_value,
    effective_format |-> effective_format ]

ExtendedValue(number_value) == [number_value |-> number_value]
CellFormat(number_format) == [number_format |-> number_format]
NumberFormat(type_) == [type_ |-> type_]

UNITITIALIZED_SCORE == 0

\* A variant of parse_date that accepts a cell of any declared type.
parse_date_any_type(cell) ==
  IF ~IsSome(cell.effective_format)
  THEN Err(RecordError("Empty", "EmptyEffectiveFormat", "", 0))
  ELSE LET cell_format == Unwrap(cell.effective_format) IN
    IF ~IsSome(cell_format.number_format)
    THEN Err(RecordError("InvalidCell", "InvalidDateCell", "date cell should have NumberFormat", 0))
    ELSE LET type_ == Unwrap(cell_format.number_format).type_ IN
      IF ~IsSome(type_) THEN Panic
      ELSE IF ~IsSome(cell.formatted_value)
           THEN Err(RecordError("InvalidCell", "InvalidDateCell",
                                "can't be empty formatted value for date", 0))
           ELSE LET parsed_date == parse_from_str(Unwrap(cell.formatted_value)) IN
                IF parsed_date.kind = "Ok" THEN parsed_date
                ELSE Err(RecordError("ParseError", "DateParseError", parsed_date.error, 0))

\* ScoreTableRecord::parse_date.  type_.as_ref().unwrap() panics on a number
\* format that carries no type.
parse_date(cell) ==
  IF ~IsSome(cell.effective_format)
  THEN Err(RecordError("Empty", "EmptyEffectiveFormat", "", 0))
  ELSE LET cell_format == Unwrap(cell.effective_format) IN
    IF ~IsSome(cell_format.number_format)
    THEN Err(RecordError("InvalidCell", "InvalidDateCell", "date cell should have NumberFormat", 0))
    ELSE LET type_ == Unwrap(cell_format.number_format).type_ IN
      IF ~IsSome(type_) THEN Panic
      ELSE IF Unwrap(type_) = "DATE"
      THEN IF ~IsSome(cell.formatted_value)
           THEN Err(RecordError("InvalidCell", "InvalidDateCell",
                                "can't be empty formatted value for date", 0))
           ELSE LET parsed_date == parse_from_str(Unwrap(cell.formatted_value)) IN
                IF parsed_date.kind = "Ok" THEN parsed_date
                ELSE Err(RecordError("ParseError", "DateParseError", parsed_date.error, 0))
      ELSE Err(RecordError("InvalidCell", "InvalidDateCell",
                           "google API cell type is other than DATE", 0))

\* A variant of parse_percentage that takes a value without a percent sign
\* as the integer it spells.
parse_percentage_lenient(cell) ==
  IF ~IsSome(cell.formatted_value) THEN Ok([value |-> 0])
  ELSE LET value == Unwrap(cell.formatted_value)
           prefix == IF value # <<>> /\ value[Len(value)] = "%"
                     THEN SubSeq(value, 1, Len(value) - 1) ELSE value
           percent_value == parse_i32(prefix)
       IN  IF percent_value.kind = "Ok" THEN Ok([value |-> percent_value.value])
           ELSE Err(RecordError("ParseError", "PercentParseError", percent_value.error, 0))

\* ScoreTableRecord::parse_percentage.
parse_percentage(cell) ==
  IF ~IsSome(cell.formatted_value) THEN Ok([value |-> 0])
  ELSE LET value == Unwrap(cell.formatted_value) IN
    IF ~(value # <<>> /\ value[Len(value)] = "%")
    THEN Err(RecordError("InvalidCell", "InvalidPercentCell",
                         "percent cell should end up with %", 0))
    ELSE LET percent_value == parse_i32(SubSeq(value, 1, Len(value) - 1)) IN
         IF percent_value.kind = "Ok" THEN Ok([value |-> percent_value.value])
         ELSE Err(RecordError("ParseError", "PercentParseError", percent_value.error, 0))

\* A variant of parse_score that takes the underlying value of a cell
\* without a formatted value.
parse_score_underlying_first(cell, index) ==
  LET score == IF IsSome(cell.formatted_value)
               THEN parse_f64(Unwrap(cell.formatted_value))
               ELSE Err("Empty")
  IN  IF score.kind = "Ok" THEN score
      ELSE LET derived_error == RecordError("ParseError", "ScoreParseError", score.error, index) IN
           IF IsSome(cell.effective_value)
           THEN LET number_value == Unwrap(cell.effective_value).number_value IN
                IF IsSome(number_value) THEN Ok(Unwrap(number_value)) ELSE Err(derived_error)
           ELSE IF IsSome(cell.formatted_value) THEN Err(derived_error)
           ELSE Ok(UNITITIALIZED_SCORE)

\* ScoreTableRecord::parse_score.
parse_score(cell, index) ==
  LET score == IF IsSome(cell.formatted_value)
               THEN parse_f64(Unwrap(cell.formatted_value))
               ELSE Ok(UNITITIALIZED_SCORE)
  IN  IF score.kind = "Ok" THEN score
      ELSE LET derived_error == RecordError("ParseError", "ScoreParseError", score.error, index) IN
           IF IsSome(cell.effective_value)
           THEN LET number_value == Unwrap(cell.effective_value).number_value IN
                IF IsSome(number_value) THEN Ok(Unwrap(number_value)) ELSE Err(derived_error)
           ELSE Err(derived_error)

\* Scores::default and ScoreTableRecord::new.
DefaultScores ==
  [ sport |-> UNITITIALIZED_SCORE, professional_growth |-> UNITITIALIZED_SCORE,
    health |-> UNITITIALIZED_SCORE, spiritual_growth |-> UNITITIALIZED_SCORE,
    foreign_language |-> UNITITIALIZED_SCORE, personal_dev |-> UNITITIALIZED_SCORE ]

NewRecord(date, scores, total_score, percent) ==
  [date |-> date, scores |-> scores, total_score |-> total_score, percent |-> percent]

\* ScoreTableRecord::default.
DefaultRecord == NewRecord(DefaultDate, DefaultScores, 0, [value |-> 0])

has_total(rec) == rec.total_score # UNITITIALIZED_SCORE

\* A variant of the column match that adds column 7 to the categories' sum
\* instead of taking it as the total.
set_score_summing(rec, i, score) ==
  CASE i = 1 -> [rec EXCEPT !.scores.sport = score, !.total_score = @ + score]
    [] i = 2 -> [rec EXCEPT !.scores.professional_growth = score, !.total_score = @ + score]
    [] i = 3 -> [rec EXCEPT !.scores.health = score, !.total_score = @ + score]
    [] i = 4 -> [rec EXCEPT !.scores.spiritual_growth = score, !.total_score = @ + score]
    [] i = 5 -> [rec EXCEPT !.scores.foreign_language = score, !.total_score = @ + score]
    [] i = 6 -> [rec EXCEPT !.scores.personal_dev = score, !.total_score = @ + score]
    [] i = 7 -> rec

\* The inner match of from_vec: where the score of column i goes.
set_score(rec, i, score) ==
  CASE i = 1 -> [rec EXCEPT !.scores.sport = score]
    [] i = 2 -> [rec EXCEPT !.scores.professional_growth = score]
    [] i = 3 -> [rec EXCEPT !.scores.health = score]
    [] i = 4 -> [rec EXCEPT !.scores.spiritual_growth = score]
    [] i = 5 -> [rec EXCEPT !.scores.foreign_language = score]
    [] i = 6 -> [rec EXCEPT !.scores.personal_dev = score]
    [] i = 7 -> [rec EXCEPT !.total_score = score]

\* The loop of from_vec from cell index i on (indices count from 0); rec
\* holds the locals date, scores, total_score and percent.
RECURSIVE from_vec_loop(_, _, _)
from_vec_loop(cells, i, rec) ==
  IF i >= Len(cells) THEN Ok(rec)
  ELSE LET cell == cells[i + 1] IN
    IF i = 0
    THEN LET date == parse_date(cell) IN
         IF date.kind = "Ok" THEN from_vec_loop(cells, i + 1, [rec EXCEPT !.date = date.value])
         ELSE date
    ELSE IF i \in 1..7
    THEN LET score == parse_score(cell, i) IN
         IF score.kind = "Ok" THEN from_vec_loop(cells, i + 1, set_score(rec, i, score.value))
         ELSE score
    ELSE IF i = 8
    THEN LET percent == parse_percentage(cell) IN
         IF percent.kind = "Ok" THEN from_vec_loop(cells, i + 1, [rec EXCEPT !.percent = percent.value])
         ELSE percent
    ELSE Err(RecordError("UnexpectedFieldIndex", "", "", i))

\* A variant of from_vec that takes whole rows only.
from_vec_whole(cells) ==
  IF Len(cells) < 9 THEN Err(RecordError("UnexpectedFieldIndex", "", "", Len(cells)))
  ELSE from_vec_loop(cells, 0, NewRecord(DefaultDate, DefaultScores, UNITITIALIZED_SCORE, [value |-> 0]))

\* ScoreTableRecord::from_vec.
from_vec(cells) ==
  from_vec_loop(cells, 0, NewRecord(DefaultDate, DefaultScores, UNITITIALIZED_SCORE, [value |-> 0]))

\* ---- the rows the parser is handed
\* The longest row.
MaxCells == 10

\* How often one row is parsed.
MaxParses == 2

DateStrings ==
  { <<"0", "1", ".", "0", "3", ".", "2", "0", "2", "4">>, <<"1", ".", "3", ".", "2", "0", "2", "4">>, <<"2", "9", ".", "0", "2", ".", "2", "0", "2", "4">>, <<"2", "9", ".", "0", "2", ".", "2", "0", "2", "3">>,
    <<"3", "1", ".", "0", "4", ".", "2", "0", "2", "4">>, <<"0", "1", ".", "1", "3", ".", "2", "0", "2", "4">>, <<"2", "0", "2", "4", "-", "0", "3", "-", "0", "1">>, <<"0", "1", ".", "0", "3">>,
    <<"0", "1", ".", "0", "3", ".", "2", "0", "2", "4", " ">>, <<>> }

ScoreStrings ==
  { <<"5">>, <<"1", "5">>, <<"0">>, <<"0", ".", "0">>, <<"-", "0">>, <<"1", ".", "5">>, <<".", "5">>, <<"7", ".">>, <<"-", "2">>,
    <<"+", "3">>, <<"1", ",", "5">>, <<"x">>, <<".">>, <<" ", "5">>, <<>> }

PercentStrings ==
  { <<"6", "0", "%">>, <<"0", "%">>, <<"+", "7", "%">>, <<"-", "5", "%">>, <<"6", "0">>, <<"%">>, <<"6", " ", "0", "%">>, <<"6", "0", "%", "%">>,
    <<"2", "1", "4", "7", "4", "8", "3", "6", "4", "7", "%">>, <<"2", "1", "4", "7", "4", "8", "3", "6", "4", "8", "%">>, <<>> }

TypedFormat(t) == Some(CellFormat(Some(NumberFormat(Some(t)))))

\* Cells for column 0: every way the format metadata can be absent, the
\* declared types, and DATE cells with each string or none.
DateCells ==
  {Cell(fv, NoValue, ef) :
     fv \in {NoValue, Some(<<"0", "1", ".", "0", "3", ".", "2", "0", "2", "4">>)},
     ef \in { NoValue, Some(CellFormat(NoValue)),
              Some(CellFormat(Some(NumberFormat(NoValue)))),
              TypedFormat("NUMBER"), TypedFormat("TEXT"), TypedFormat("DATE") }}
  \cup {Cell(Some(s), NoValue, TypedFormat("DATE")) : s \in DateStrings}

\* Cells for the score columns: each string or none, with each kind of
\* underlying value.
ScoreCells ==
  {Cell(fv, ev, NoValue) :
     fv \in {NoValue} \cup {Some(s) : s \in ScoreStrings},
     ev \in {NoValue, Some(ExtendedValue(NoValue)), Some(ExtendedValue(Some(150)))}}

PercentCells ==
  {Cell(fv, NoValue, NoValue) : fv \in {NoValue} \cup {Some(s) : s \in PercentStrings}}

\* The row 01.03.2024, 5, 3, 4, 2, 1, 0, 15, 60% and the Record it spells.
ExampleRow ==
  << Cell(Some(<<"0", "1", ".", "0", "3", ".", "2", "0", "2", "4">>), NoValue, TypedFormat("DATE")),
     Cell(Some(<<"5">>), NoValue, NoValue),
     Cell(Some(<<"3">>), NoValue, NoValue),
     Cell(Some(<<"4">>), NoValue, NoValue),
     Cell(Some(<<"2">>), NoValue, NoValue),
     Cell(Some(<<"1">>), NoValue, NoValue),
     Cell(Some(<<"0">>), NoValue, NoValue),
     Cell(Some(<<"1", "5">>), NoValue, NoValue),
     Cell(Some(<<"6", "0", "%">>), NoValue, NoValue) >>

ExampleRecord ==
  NewRecord(Date(2024, 3, 1),
            [ sport |-> 500, professional_growth |-> 300, health |-> 400,
              spiritual_growth |-> 200, foreign_language |-> 100, personal_dev |-> 0 ],
            1500, [value |-> 60])

\* The example row with one cell, or the date cell and one more, replaced;
\* every prefix of such a row; and such a row with cells after the ninth.
FullRows ==
  {[ExampleRow EXCEPT ![1] = d] : d \in DateCells}
  \cup {[ExampleRow EXCEPT ![k + 1] = s] : k \in 1..7, s \in ScoreCells}
  \cup {[ExampleRow EXCEPT ![9] = p] : p \in PercentCells}
  \cup {[ExampleRow EXCEPT ![1] = d, ![8] = s] :
          d \in DateCells, s \in {Cell(Some(<<"x">>), NoValue, NoValue), Cell(NoValue, NoValue, NoValue)}}

Rows ==
  {SubSeq(r, 1, n) : r \in FullRows, n \in 0..Len(ExampleRow)}
  \cup {r \o [i \in 1..n |-> ExampleRow[9]] : r \in FullRows, n \in 1..(MaxCells - Len(ExampleRow))}

\* A call of from_vec on the row.
Parse ==
  /\ Len(parsed) < MaxParses
  /\ parsed' = Append(parsed, from_vec(row))
  /\ UNCHANGED row
  /\ UNCHANGED <<engineVars, finalized, bootVars, source, queryVars, clockVars, initVars, cursorVars, ingestVars>>

\* ---------------------------------------------------------------- ingestion
\* AsyncSheetsHubError: the variant, what it carries, and the row parser's
\* error inside a ScoreTableRecordError.
HubError(variant, data, cause) == [variant |-> variant, data |-> data, cause |-> cause]
InvalidFetchedData(data) == HubError("InvalidFetchedData", data, NoValue)
GoogleSheetsApiError == HubError("GoogleSheetsApiError", "", NoValue)
\* InvalidFetchedData::NotFoundSheetId carries the title looked for.
NotFoundSheetId(title) ==
  [variant |-> "InvalidFetchedData", data |-> "NotFoundSheetId", cause |-> NoValue, title |-> title]

\* google_sheets4's Spreadsheet, Sheet, SheetProperties, GridData and RowData,
\* the fields the hub reads, each an Option.
Spreadsheet(sheets) == [sheets |-> sheets]
Sheet(properties, data) == [properties |-> properties, data |-> data]
SheetProperties(title, sheet_id) == [title |-> title, sheet_id |-> sheet_id]
GridData(row_data) == [row_data |-> row_data]
RowData(values) == [values |-> values]

Person(name) == [name |-> name]
ScoreTable(person, table) == [person |-> person, table |-> table]

\* A Dashboard built as Dashboard::new builds it: no tables kept.
Dashboard_unpopulated(tables) == [score_tables |-> NoValue]

\* Dashboard::from.
Dashboard_from(tables) == [score_tables |-> Some(tables)]

\* A variant of the rows' loop that takes a row without a cell list for a
\* row that does not parse.
RECURSIVE collect_records_downgrading(_, _, _)
collect_records_downgrading(rows, skip, records) ==
  IF rows = <<>> THEN Ok(records)
  ELSE LET values == Head(rows).values IN
    IF ~IsSome(values)
    THEN IF skip
         THEN collect_records_downgrading(Tail(rows), skip, Append(records, DefaultRecord))
         ELSE Err(InvalidFetchedData("EmptyCellData"))
    ELSE LET new_record == from_vec(Unwrap(values)) IN
      IF new_record.kind = "Panic" THEN Panic
      ELSE IF new_record.kind = "Ok"
      THEN collect_records_downgrading(Tail(rows), skip, Append(records, new_record.value))
      ELSE IF skip
      THEN collect_records_downgrading(Tail(rows), skip, Append(records, DefaultRecord))
      ELSE Err(HubError("ScoreTableRecordError", "", Some(new_record.error)))

\* The rows after the first, in fetch_score_table: one Record a row, the
\* parser's error kept or replaced by a default Record.
RECURSIVE collect_records(_, _, _)
collect_records(rows, skip, records) ==
  IF rows = <<>> THEN Ok(records)
  ELSE LET values == Head(rows).values IN
    IF ~IsSome(values) THEN Err(InvalidFetchedData("EmptyCellData"))
    ELSE LET new_record == from_vec(Unwrap(values)) IN
      IF new_record.kind = "Panic" THEN Panic
      ELSE IF new_record.kind = "Ok"
      THEN collect_records(Tail(rows), skip, Append(records, new_record.value))
      ELSE IF skip
      THEN collect_records(Tail(rows), skip, Append(records, DefaultRecord))
      ELSE Err(HubError("ScoreTableRecordError", "", Some(new_record.error)))

\* The end of fetch_score_table: the table of the person with the Records,
\* unless collecting them failed.
table_of_records(name, records) ==
  IF records.kind = "Ok" THEN Ok(ScoreTable(Person(name), records.value)) ELSE records

\* A variant of the rows' reading that takes a first row without cells for
\* a first row without a name.
table_of_rows_ending(table, skip_parse_errors) ==
  IF table = <<>> THEN Err(InvalidFetchedData("EmptyCellData"))
  ELSE IF ~IsSome(table[1].values) THEN Err(InvalidFetchedData("EmptyCellData"))
  ELSE IF Unwrap(table[1].values) = <<>> THEN Err(InvalidFetchedData("EmptyPersonNameCell"))
  ELSE IF ~IsSome(Unwrap(table[1].values)[1].formatted_value)
  THEN Err(InvalidFetchedData("EmptyPersonNameCell"))
  ELSE table_of_records(trim(Unwrap(Unwrap(table[1].values)[1].formatted_value)),
                        collect_records(Tail(table), skip_parse_errors, <<>>))

\* fetch_score_table from the rows on: the name of the first row's first
\* cell, then the Records of the other rows.
table_of_rows(table, skip_parse_errors) ==
  IF table = <<>> THEN Err(InvalidFetchedData("EmptyCellData"))
  ELSE IF ~IsSome(table[1].values) THEN Err(InvalidFetchedData("EmptyCellData"))
  ELSE IF Unwrap(table[1].values) = <<>> THEN Err(InvalidFetchedData("EmptyCellData"))
  ELSE IF ~IsSome(Unwrap(table[1].values)[1].formatted_value)
  THEN Err(InvalidFetchedData("EmptyPersonNameCell"))
  ELSE table_of_records(trim(Unwrap(Unwrap(table[1].values)[1].formatted_value)),
                        collect_records(Tail(table), skip_parse_errors, <<>>))

\* fetch_score_table from the one sheet's grid data on.
table_of_grid(grid_data_vec, skip_parse_errors) ==
  IF ~IsSome(grid_data_vec) THEN Err(InvalidFetchedData("EmptyGridData"))
  ELSE IF Unwrap(grid_data_vec) = <<>> THEN Err(InvalidFetchedData("EmptyGridData"))
  ELSE IF ~IsSome(Unwrap(grid_data_vec)[1].row_data)
  THEN Err(InvalidFetchedData("EmptyRowData"))
  ELSE table_of_rows(Unwrap(Unwrap(grid_data_vec)[1].row_data), skip_parse_errors)

\* AsyncSheetsHub::fetch_score_table, from the response of the remote call on.
fetch_score_table(response, skip_parse_errors) ==
  IF response.kind = "Err" THEN Err(GoogleSheetsApiError)
  ELSE IF ~IsSome(response.value.sheets) THEN Err(InvalidFetchedData("EmptySheets"))
  ELSE IF Len(Unwrap(response.value.sheets)) # 1
  THEN Err(InvalidFetchedData("InvalidVectorSize"))
  ELSE table_of_grid(Unwrap(response.value.sheets)[1].data, skip_parse_errors)

\* helpers::get_sheet_id_by_title.
RECURSIVE get_sheet_id_by_title(_, _)
get_sheet_id_by_title(sheets, title) ==
  IF sheets = <<>> THEN NoValue
  ELSE LET props == Head(sheets).properties IN
    IF IsSome(props) /\ IsSome(Unwrap(props).title) /\ Unwrap(Unwrap(props).title) = title
    THEN Unwrap(props).sheet_id
    ELSE get_sheet_id_by_title(Tail(sheets), title)

\* ---- the responses of the remote
\* The most data rows of a block, and the most windows a cycle fetches.
MaxRows == 2
MaxFetches == 3

\* helpers::derive_title_name: the title of the current period, that of
\* March 2024; and titles of other sheets, of another month and with a
\* blank after the title.
DerivedTitle == <<"M", "a", "r", "t", " ", "2", "4">>
OtherTitle == <<"F", "e", "v", "r", "a", "l", " ", "2", "4">>
PaddedTitle == <<"M", "a", "r", "t", " ", "2", "4", " ">>

TitleSheet(title, sheet_id) == Sheet(Some(SheetProperties(title, sheet_id)), NoValue)

TitleResponses ==
  { Err("remote"),
    Ok(Spreadsheet(NoValue)),
    Ok(Spreadsheet(Some(<<>>))),
    Ok(Spreadsheet(Some(<<TitleSheet(Some(OtherTitle), Some(7))>>))),
    Ok(Spreadsheet(Some(<<TitleSheet(Some(PaddedTitle), Some(7))>>))),
    Ok(Spreadsheet(Some(<<TitleSheet(Some(DerivedTitle), NoValue)>>))),
    Ok(Spreadsheet(Some(<<Sheet(NoValue, NoValue), TitleSheet(NoValue, Some(0)),
                          TitleSheet(Some(OtherTitle), Some(7)),
                          TitleSheet(Some(DerivedTitle), Some(42))>>))),
    Ok(Spreadsheet(Some(<<TitleSheet(Some(DerivedTitle), Some(0)),
                          TitleSheet(Some(DerivedTitle), Some(7))>>))) }

\* A window's response with the given rows in its one sheet's first grid.
Window(rows) == Ok(Spreadsheet(Some(<<Sheet(NoValue, Some(<<GridData(Some(rows))>>))>>)))

NameCell(formatted_value) == Cell(formatted_value, NoValue, NoValue)

\* First rows: no cells, a name cell without a value (alone or followed by
\* a filled cell), with an empty or blank value, and with a name.
NameRows ==
  { RowData(NoValue), RowData(Some(<<>>)),
    RowData(Some(<<NameCell(NoValue)>>)),
    RowData(Some(<<NameCell(NoValue), NameCell(Some(<<"x">>))>>)),
    RowData(Some(<<NameCell(Some(<<>>))>>)),
    RowData(Some(<<NameCell(Some(<<" ">>))>>)),
    RowData(Some(<<NameCell(Some(<<"A", "n", "n">>))>>)),
    RowData(Some(<<NameCell(Some(<<" ", "B", "o", "b", " ">>)), NameCell(NoValue)>>)) }

\* Data rows: the example, a row of a date only, a row with a score that
\* does not parse, a row whose date cell declares no type, a row without
\* cells, and a row whose cells are absent.
BadScoreRow == [ExampleRow EXCEPT ![3] = Cell(Some(<<"x">>), NoValue, NoValue)]
UntypedDateRow ==
  [ExampleRow EXCEPT ![1] = Cell(Some(<<"0", "1", ".", "0", "3", ".", "2", "0", "2", "4">>), NoValue,
                                  Some(CellFormat(Some(NumberFormat(NoValue)))))]

\* The example row with the number -2 in the sport column.
NegativeScoreRow == [ExampleRow EXCEPT ![2] = Cell(Some(<<"-", "2">>), NoValue, NoValue)]

DataRows ==
  { RowData(Some(ExampleRow)), RowData(Some(SubSeq(ExampleRow, 1, 1))),
    RowData(Some(BadScoreRow)), RowData(Some(UntypedDateRow)),
    RowData(Some(NegativeScoreRow)),
    RowData(Some(<<>>)), RowData(NoValue) }

TuplesUpTo(S, n) == UNION {[1..k -> S] : k \in 0..n}

\* The responses a window fetch can get: the remote's error, every absent
\* level of the structure, and blocks of a first row and data rows.
Blocks ==
  { Err("remote"),
    Ok(Spreadsheet(NoValue)),
    Ok(Spreadsheet(Some(<<>>))),
    Ok(Spreadsheet(Some(<<Sheet(NoValue, NoValue), Sheet(NoValue, NoValue)>>))),
    Ok(Spreadsheet(Some(<<Sheet(NoValue, NoValue)>>))),
    Ok(Spreadsheet(Some(<<Sheet(NoValue, Some(<<>>))>>))),
    Ok(Spreadsheet(Some(<<Sheet(NoValue, Some(<<GridData(NoValue)>>))>>))),
    Window(<<>>) }
  \cup {Window(<<n>> \o rows) : n \in NameRows, rows \in TuplesUpTo(DataRows, MaxRows)}

\* The blocks an ingestion cycle is given: the failures, and of the blocks
\* with rows those of at most one data row.
Windows ==
  {b \in Blocks :
     b.kind = "Ok" /\ IsSome(b.value.sheets) /\ Len(Unwrap(b.value.sheets)) = 1
       /\ IsSome(Unwrap(b.value.sheets)[1].data)
       /\ Unwrap(Unwrap(b.value.sheets)[1].data) # <<>>
       /\ IsSome(Unwrap(Unwrap(b.value.sheets)[1].data)[1].row_data)
     => Len(Unwrap(Unwrap(Unwrap(b.value.sheets)[1].data)[1].row_data)) <= 2}

\* A call of fetch_score_table with the block as the remote's response.
FetchScoreTable ==
  /\ score_table = NoValue
  /\ IsSome(block)
  /\ score_table' = Some(fetch_score_table(Unwrap(block), skip_arg))
  /\ UNCHANGED <<cycle, titles, block, skip_arg>>
  /\ UNCHANGED <<engineVars, finalized, bootVars, source, queryVars, clockVars, initVars, cursorVars, parseVars>>

\* fetch_dashboard up to its loop: the titles are fetched and the sheet of
\* the current period is looked up.
FetchTitles(response) ==
  /\ cycle.pc = "idle"
  /\ titles' = Some(response)
  /\ IF response.kind = "Err"
     THEN /\ cycle' = [cycle EXCEPT !.pc = "done", !.result = Some(Err(GoogleSheetsApiError))]
          /\ UNCHANGED cursorVars
     ELSE IF ~IsSome(response.value.sheets)
     THEN /\ cycle' = [cycle EXCEPT !.pc = "done",
                                    !.result = Some(Err(InvalidFetchedData("EmptySheets")))]
          /\ UNCHANGED cursorVars
     ELSE IF ~IsSome(get_sheet_id_by_title(Unwrap(response.value.sheets), DerivedTitle))
     THEN /\ cycle' = [cycle EXCEPT !.pc = "done",
                                    !.result = Some(Err(NotFoundSheetId(DerivedTitle)))]
          /\ UNCHANGED cursorVars
     ELSE /\ cycle' = [cycle EXCEPT !.pc = "loop"]
          /\ request' = NewRequest(Unwrap(get_sheet_id_by_title(Unwrap(response.value.sheets),
                                                                 DerivedTitle)), TRUE)
          /\ advances' = 0
          /\ built' = NoValue
  /\ UNCHANGED <<block, skip_arg, score_table>>
  /\ UNCHANGED <<engineVars, finalized, bootVars, source, queryVars, clockVars, initVars, parseVars>>

\* A variant of the loop's turn that fetches the window again after an error.
LoopTurnRetrying(response, fetched_table) ==
  /\ cycle.pc = "loop"
  /\ cycle.fetches < MaxFetches
  /\ block' = Some(response)
  /\ built' = Some(build(request))
  /\ IF fetched_table.kind = "Ok"
     THEN /\ cycle' = [cycle EXCEPT !.tables = Append(@, fetched_table.value),
                                    !.fetches = @ + 1]
          /\ request' = next_table_request(request)
          /\ advances' = advances + 1
     ELSE IF fetched_table.kind = "Panic"
     THEN /\ cycle' = [cycle EXCEPT !.pc = "panicked", !.fetches = @ + 1]
          /\ UNCHANGED <<request, advances>>
     ELSE IF fetched_table.error = InvalidFetchedData("EmptyPersonNameCell")
     THEN /\ cycle' = [cycle EXCEPT !.pc = "done", !.fetches = @ + 1,
                                    !.result = Some(Ok(Dashboard_from(cycle.tables)))]
          /\ UNCHANGED <<request, advances>>
     ELSE /\ cycle' = [cycle EXCEPT !.fetches = @ + 1]
          /\ UNCHANGED <<request, advances>>
  /\ UNCHANGED <<titles, skip_arg, score_table>>
  /\ UNCHANGED <<engineVars, finalized, bootVars, source, queryVars, clockVars, initVars, parseVars>>

\* A variant of the loop's turn that advances the request whatever the
\* window held.
LoopTurnAdvancing(response, fetched_table) ==
  /\ cycle.pc = "loop"
  /\ cycle.fetches < MaxFetches
  /\ block' = Some(response)
  /\ built' = Some(build(request))
  /\ request' = next_table_request(request)
  /\ advances' = advances + 1
  /\ IF fetched_table.kind = "Ok"
     THEN cycle' = [cycle EXCEPT !.tables = Append(@, fetched_table.value), !.fetches = @ + 1]
     ELSE IF fetched_table.kind = "Panic"
     THEN cycle' = [cycle EXCEPT !.pc = "panicked", !.fetches = @ + 1]
     ELSE IF fetched_table.error = InvalidFetchedData("EmptyPersonNameCell")
     THEN cycle' = [cycle EXCEPT !.pc = "done", !.fetches = @ + 1,
                                 !.result = Some(Ok(Dashboard_from(cycle.tables)))]
     ELSE cycle' = [cycle EXCEPT !.pc = "done", !.fetches = @ + 1,
                                 !.result = Some(Err(fetched_table.error))]
  /\ UNCHANGED <<titles, skip_arg, score_table>>
  /\ UNCHANGED <<engineVars, finalized, bootVars, source, queryVars, clockVars, initVars, parseVars>>

\* A variant of the loop's turn that passes over a window without a name
\* and goes on to the next one.
LoopTurnPassing(response, fetched_table) ==
  /\ cycle.pc = "loop"
  /\ cycle.fetches < MaxFetches
  /\ block' = Some(response)
  /\ built' = Some(build(request))
  /\ IF fetched_table.kind = "Ok"
     THEN /\ cycle' = [cycle EXCEPT !.tables = Append(@, fetched_table.value),
                                    !.fetches = @ + 1]
          /\ request' = next_table_request(request)
          /\ advances' = advances + 1
     ELSE IF fetched_table.kind = "Panic"
     THEN /\ cycle' = [cycle EXCEPT !.pc = "panicked", !.fetches = @ + 1]
          /\ UNCHANGED <<request, advances>>
     ELSE IF fetched_table.error = InvalidFetchedData("EmptyPersonNameCell")
     THEN /\ cycle' = [cycle EXCEPT !.fetches = @ + 1]
          /\ request' = next_table_request(request)
          /\ advances' = advances + 1
     ELSE /\ cycle' = [cycle EXCEPT !.pc = "done", !.fetches = @ + 1,
                                    !.result = Some(Err(fetched_table.error))]
          /\ UNCHANGED <<request, advances>>
  /\ UNCHANGED <<titles, skip_arg, score_table>>
  /\ UNCHANGED <<engineVars, finalized, bootVars, source, queryVars, clockVars, initVars, parseVars>>

\* One turn of fetch_dashboard's loop, fetched_table being what
\* fetch_score_table returned for the window: a table is kept and the
\* request moves on, the empty name cell ends the loop with the tables, any
\* other error is returned.
LoopTurn(response, fetched_table) ==
  /\ cycle.pc = "loop"
  /\ cycle.fetches < MaxFetches
  /\ block' = Some(response)
  /\ built' = Some(build(request))
  /\ IF fetched_table.kind = "Ok"
     THEN /\ cycle' = [cycle EXCEPT !.tables = Append(@, fetched_table.value),
                                    !.fetches = @ + 1]
          /\ request' = next_table_request(request)
          /\ advances' = advances + 1
     ELSE IF fetched_table.kind = "Panic"
     THEN /\ cycle' = [cycle EXCEPT !.pc = "panicked", !.fetches = @ + 1]
          /\ UNCHANGED <<request, advances>>
     ELSE IF fetched_table.error = InvalidFetchedData("EmptyPersonNameCell")
     THEN /\ cycle' = [cycle EXCEPT !.pc = "done", !.fetches = @ + 1,
                                    !.result = Some(Ok(Dashboard_from(cycle.tables)))]
          /\ UNCHANGED <<request, advances>>
     ELSE /\ cycle' = [cycle EXCEPT !.pc = "done", !.fetches = @ + 1,
                                    !.result = Some(Err(fetched_table.error))]
          /\ UNCHANGED <<request, advances>>
  /\ UNCHANGED <<titles, skip_arg, score_table>>
  /\ UNCHANGED <<engineVars, finalized, bootVars, source, queryVars, clockVars, initVars, parseVars>>

\* The window of the request is fetched and parsed without downgrading.
FetchWindow(response) == LoopTurn(response, fetch_score_table(response, FALSE))

\* ---------------------------------------------------------------- queries
\* Queries made of one Dashboard.
MaxQueries == 1

\* Tables of the Dashboard queried.
MaxEntities == 2

\* Iterator::find and rev().find on a Vec: the first and the last element
\* the predicate holds of.
find(vec, P(_)) ==
  LET hits == {i \in 1..Len(vec) : P(vec[i])} IN
  IF hits = {} THEN NoValue ELSE Some(vec[CHOOSE i \in hits : \A j \in hits : i <= j])

rfind(vec, P(_)) ==
  LET hits == {i \in 1..Len(vec) : P(vec[i])} IN
  IF hits = {} THEN NoValue ELSE Some(vec[CHOOSE i \in hits : \A j \in hits : i >= j])

\* A variant of last_filled_record that takes the first Record with a total.
first_filled_record(table) == find(table.table, has_total)

\* ScoreTable::last_filled_record.
last_filled_record(table) == rfind(table.table, has_total)

\* ScoreTable::by_date.
by_date(table, date) == rfind(table.table, LAMBDA rec : rec.date = date)

\* DashboardAnalyzer::participants, on the Dashboard's score_tables.
participants(dash) ==
  IF IsSome(dash)
  THEN Some([t \in 1..Len(Unwrap(dash)) |-> Unwrap(dash)[t].person])
  ELSE NoValue

\* A variant of find_table that takes the last table of the person.
find_last_table(dash, person) ==
  IF IsSome(dash) THEN rfind(Unwrap(dash), LAMBDA t : t.person = person) ELSE NoValue

\* DashboardAnalyzer::find_table. Two Persons are equal when their ids, the
\* hashes of their names, and their names are: when their names are.
find_table(dash, person) ==
  IF IsSome(dash) THEN find(Unwrap(dash), LAMBDA t : t.person = person) ELSE NoValue

\* DashboardAnalyzer::last_filled_score_table_record.
last_filled_score_table_record(dash, person) ==
  IF IsSome(find_table(dash, person))
  THEN last_filled_record(Unwrap(find_table(dash, person)))
  ELSE NoValue

\* DashboardAnalyzer::today_filled_score_table_record, date being the date
\* the clock gives.
filled_score_table_record(dash, person, date) ==
  IF IsSome(find_table(dash, person))
  THEN LET record == by_date(Unwrap(find_table(dash, person)), date) IN
       IF IsSome(record) /\ has_total(Unwrap(record)) THEN record ELSE NoValue
  ELSE NoValue

\* DashboardAnalyzer::get_person_by_name.
get_person_by_name(dash, name) ==
  IF IsSome(dash)
  THEN LET found_table == find(Unwrap(dash), LAMBDA t : t.person.name = name) IN
       IF IsSome(found_table) THEN Some(Unwrap(found_table).person) ELSE NoValue
  ELSE NoValue

\* The element of the digest for a person and the filled Record of the date.
SummaryLine(person, record) == [person |-> person, record |-> record]

\* Dashboard::summary on an initialized Dashboard: the empty-participants
\* error when there is no participant, else one element for each
\* participant, in order, for whom the analyzer finds a filled Record of the
\* date.
Dashboard_summary(dash, date) ==
  IF Unwrap(participants(dash)) = <<>> THEN Err("EmptyParticipants")
  ELSE LET with_record == SelectSeq(Unwrap(participants(dash)),
                                    LAMBDA p : IsSome(filled_score_table_record(dash, p, date)))
       IN  Ok([i \in 1..Len(with_record) |->
                 SummaryLine(with_record[i],
                             Unwrap(filled_score_table_record(dash, with_record[i], date)))])

\* Names, Records and tables of the Dashboards queried: two dates, Records
\* with and without a total, tables with none, one and two Records.
Ann == <<"A", "n", "n">>
Bob == <<"B", "o", "b">>
FilledRecord == ExampleRecord
UnfilledRecord == [ExampleRecord EXCEPT !.total_score = UNITITIALIZED_SCORE]
LaterRecord == [ExampleRecord EXCEPT !.date = Date(2024, 3, 2), !.total_score = 700]

RecordLists ==
  { <<>>, <<FilledRecord>>, <<UnfilledRecord>>, <<FilledRecord, UnfilledRecord>>,
    <<UnfilledRecord, FilledRecord>>, <<FilledRecord, LaterRecord>>,
    <<LaterRecord, FilledRecord>> }

SampleTables == {ScoreTable(Person(name), records) : name \in {Ann, Bob}, records \in RecordLists}

Snapshots == {NoValue} \cup {Some(tables) : tables \in TuplesUpTo(SampleTables, MaxEntities)}

QueriedNames == {Ann, Bob, <<"a", "n", "n">>}
QueriedPersons == {Person(name) : name \in QueriedNames}
QueriedDates == {Date(2024, 3, 1), Date(2024, 3, 2)}

\* A query's entry in answers.
Answer(op, arg, result) == [op |-> op, arg |-> arg, result |-> result]

\* A call of Dashboard::get_person_by_name.
GetPersonByName(name) ==
  /\ Len(answers) < MaxQueries
  /\ answers' = Append(answers, Answer("get_person_by_name", name,
                                       get_person_by_name(snapshot, name)))
  /\ UNCHANGED snapshot
  /\ UNCHANGED <<engineVars, finalized, bootVars, source, clockVars, initVars, cursorVars, ingestVars, parseVars>>

\* A call of Dashboard::find_table.
FindTable(person) ==
  /\ Len(answers) < MaxQueries
  /\ answers' = Append(answers, Answer("find_table", person, find_table(snapshot, person)))
  /\ UNCHANGED snapshot
  /\ UNCHANGED <<engineVars, finalized, bootVars, source, clockVars, initVars, cursorVars, ingestVars, parseVars>>

\* A call of Dashboard::last_filled_score_table_record.
LastFilledRecord(person) ==
  /\ Len(answers) < MaxQueries
  /\ answers' = Append(answers, Answer("last_filled_score_table_record", person,
                                       last_filled_score_table_record(snapshot, person)))
  /\ UNCHANGED snapshot
  /\ UNCHANGED <<engineVars, finalized, bootVars, source, clockVars, initVars, cursorVars, ingestVars, parseVars>>

\* A call of Dashboard::summary on an initialized Dashboard.
Summary(date) ==
  /\ Len(answers) < MaxQueries
  /\ IsSome(snapshot)
  /\ answers' = Append(answers, Answer("summary", date, Dashboard_summary(snapshot, date)))
  /\ UNCHANGED snapshot
  /\ UNCHANGED <<engineVars, finalized, bootVars, source, clockVars, initVars, cursorVars, ingestVars, parseVars>>

\* ---------------------------------------------------------------- period label
\* Calls of derive_title_name made at one time.
MaxDerivations == 2

\* The ranges of u8 and u16, the types the month and the year are
\* converted to.
MaxU8 == 255
MaxU16 == 65535

\* Month::new and get_ru: the Russian name of the month, written here in
\* Latin letters; a number that is no month panics.
Month_new(number) ==
  CASE number = 1 -> Ok([ru_name |-> <<"Y", "a", "n", "v", "a", "r">>, number |-> number])
    [] number = 2 -> Ok([ru_name |-> <<"F", "e", "v", "r", "a", "l">>, number |-> number])
    [] number = 3 -> Ok([ru_name |-> <<"M", "a", "r", "t">>, number |-> number])
    [] number = 4 -> Ok([ru_name |-> <<"A", "p", "r", "e", "l">>, number |-> number])
    [] number = 5 -> Ok([ru_name |-> <<"M", "a", "j">>, number |-> number])
    [] number = 6 -> Ok([ru_name |-> <<"I", "y", "u", "n">>, number |-> number])
    [] number = 7 -> Ok([ru_name |-> <<"I", "y", "u", "l">>, number |-> number])
    [] number = 8 -> Ok([ru_name |-> <<"A", "v", "g", "u", "s", "t">>, number |-> number])
    [] number = 9 -> Ok([ru_name |-> <<"S", "e", "n", "t", "y", "a", "b", "r">>, number |-> number])
    [] number = 10 -> Ok([ru_name |-> <<"O", "k", "t", "y", "a", "b", "r">>, number |-> number])
    [] number = 11 -> Ok([ru_name |-> <<"N", "o", "y", "a", "b", "r">>, number |-> number])
    [] number = 12 -> Ok([ru_name |-> <<"D", "e", "k", "a", "b", "r">>, number |-> number])
    [] OTHER -> Panic

\* u16::to_string: the decimal digits, no leading zero.
RECURSIVE to_string(_)
to_string(n) ==
  IF n < 10 THEN <<Digits[n + 1]>> ELSE Append(to_string(n \div 10), Digits[(n % 10) + 1])

\* A variant of the label with the whole year.
title_with_year(ru_name, year_str) == ru_name \o <<" ">> \o year_str

\* The label of derive_title_name: format!("{:} {:}", month.get_ru(),
\* &year_str[year_str.len() - 2..]).
title_of(ru_name, year_str) ==
  ru_name \o <<" ">> \o SubSeq(year_str, Len(year_str) - 1, Len(year_str))

\* helpers::derive_title_name at the time current_time: both try_into
\* conversions are unwrapped, Month::new panics on a number that is no
\* month, and the slice panics on a year of one digit.
derive_title_name(current_time) ==
  IF current_time.month \notin 0..MaxU8 \/ current_time.year \notin 0..MaxU16 THEN Panic
  ELSE IF Month_new(current_time.month).kind = "Panic" THEN Panic
  ELSE IF Len(to_string(current_time.year)) < 2 THEN Panic
  ELSE Ok(title_of(Month_new(current_time.month).value.ru_name, to_string(current_time.year)))

\* The dates the clock shows: a day of a month of a year from 1970 on.
Years == {1970, 1999, 2000, 2009, 2024, 2025, 2026, 2100, 9999, 10000, MaxU16}
Times == {Date(y, m, d) : y \in Years, m \in 1..12, d \in {1, 28}}

\* A call of derive_title_name.
DeriveTitleName ==
  /\ Len(title_names) < MaxDerivations
  /\ title_names' = Append(title_names, derive_title_name(now))
  /\ UNCHANGED now
  /\ UNCHANGED <<engineVars, finalized, bootVars, source, queryVars, initVars, cursorVars, ingestVars, parseVars>>

\* ---------------------------------------------------------------- specification
\* The data-side objects at rest: a new Dashboard, a fresh request, no cycle,
\* no row.
InitIdle ==
  /\ score_tables = NoValue
  /\ init_arg = <<>>
  /\ init_ret = FALSE
  /\ init_calls = 0

CursorIdle ==
  /\ request = NewRequest(0, TRUE)
  /\ advances = 0
  /\ built = NoValue

IdleCycle == [pc |-> "idle", tables |-> <<>>, result |-> NoValue, fetches |-> 0]

IngestIdle ==
  /\ cycle = IdleCycle
  /\ titles = NoValue
  /\ block = NoValue
  /\ skip_arg = FALSE
  /\ score_table = NoValue

ParseIdle ==
  /\ row = <<>>
  /\ parsed = NoValue

BootIdle ==
  /\ boot = [pc |-> "new", scheduled |-> <<>>]
  /\ shared = NoValue
  /\ observed = <<>>
  /\ source = <<>>

QueryIdle ==
  /\ snapshot = NoValue
  /\ answers = <<>>

ClockIdle ==
  /\ now = [year |-> 1970, month |-> 1]
  /\ title_names = <<>>

\* The scheduling engine at rest, nothing scheduled.
EngineIdle ==
  /\ when = [t \in TaskIds |-> NoWhen]
  /\ handle = [t \in TaskIds |-> None]
  /\ jobs = [t \in TaskIds |-> <<>>]
  /\ tasks = <<>>
  /\ dashboard = <<>>
  /\ fetched = <<>>
  /\ last = Outcome("none", TRUE)
  /\ rw = FreeLock
  /\ hpc = [h \in Handlers |-> "idle"]
  /\ hseen = [h \in Handlers |-> <<>>]
  /\ ret = FALSE
  /\ finalized = 0

\* Congratulator::new up to TaskManager::new: the initial ingestion succeeded
\* and its result is behind the lock; the tasks are created, none is
\* scheduled, the registry is empty.
Init ==
  /\ when = [t \in TaskIds |-> NoWhen]
  /\ handle = [t \in TaskIds |-> None]
  /\ jobs = [t \in TaskIds |-> <<>>]
  /\ tasks = <<>>
  /\ dashboard \in InitialDashboards
  /\ fetched = dashboard
  /\ last = Outcome("none", TRUE)
  /\ rw = FreeLock
  /\ hpc = [h \in Handlers |-> "idle"]
  /\ hseen = [h \in Handlers |-> <<>>]
  /\ ret = FALSE
  /\ finalized = 0
  /\ InitIdle
  /\ BootIdle
  /\ QueryIdle
  /\ ClockIdle
  /\ CursorIdle
  /\ IngestIdle
  /\ ParseIdle

\* The `when` Congratulator::new schedules each task with.
ConfiguredWhen(t) == IF t = "fetcher" THEN "EveryMin" ELSE "EveryDay"

\* What the runtime does with the jobs of task t: drop a cancelled one, fire
\* the timer of a sleeping one.
RuntimeNext(t) ==
  \/ \E i \in 1..MaxSpawns : Drop(t, i)
  \/ \E i \in 1..MaxSpawns : Tick(t, i)

FetcherNext ==
  \/ \E i \in 1..MaxSpawns, ok \in BOOLEAN : TitlesReturn(i, ok)
  \/ \E i \in 1..MaxSpawns, v \in TableVals : WindowTable(i, v)
  \/ \E i \in 1..MaxSpawns : WindowError(i)
  \/ \E i \in 1..MaxSpawns : WindowTerminator(i)
  \/ \E i \in 1..MaxSpawns : AssignDashboard(i)

NotifierNext ==
  \E i \in 1..MaxSpawns, ok \in BOOLEAN : NotifyReturn(i, ok)

SenderNext ==
  \/ \E i \in 1..MaxSpawns : ReadTable(i)
  \/ \E i \in 1..MaxSpawns : ReadDone(i)
  \/ \E i \in 1..MaxSpawns, ok \in BOOLEAN : SummaryReturn(i, ok)

HandlerNext ==
  \/ \E h \in Handlers : HandlerStart(h)
  \/ \E h \in Handlers : HandlerRead(h)
  \/ \E h \in Handlers : HandlerReadDone(h)
  \/ \E h \in Handlers : HandlerReturn(h)

\* Grants of queued lock requests.
GrantNext ==
  \/ \E i \in 1..MaxSpawns : AcquireWrite(i)
  \/ \E i \in 1..MaxSpawns : AcquireRead(i)
  \/ \E h \in Handlers : HandlerAcquire(h)

\* One task in the hands of its owner, before it is given to the manager:
\* any sequence of schedule and cancel calls on it, interleaved with its jobs
\* and with the query handlers. No other task has been scheduled.
Alone(t) == \A u \in TaskIds \ {t} : handle[u] = None

LifecycleNext ==
  \/ \E t \in TaskIds, w \in Whens : Alone(t) /\ Schedule(t, w)
  \/ \E t \in TaskIds : Cancel(t)
  \/ \E t \in TaskIds : RuntimeNext(t)
  \/ FetcherNext
  \/ NotifierNext
  \/ SenderNext
  \/ HandlerNext
  \/ \E i \in 1..MaxSpawns : AcquireWrite(i)
  \/ \E h \in Handlers : HandlerAcquire(h)

LifecycleSpec == Init /\ [][LifecycleNext]_vars

\* The Task Manager as Congratulator::new sets it up: the three tasks are
\* scheduled through schedule_task, run concurrently and may be cancelled.
TaskManagerNext ==
  \/ \E t \in TaskIds : ScheduleTask(t, ConfiguredWhen(t))
  \/ \E t \in TaskIds : Cancel(t)
  \/ FinalizeTasks
  \/ \E t \in TaskIds : RuntimeNext(t)
  \/ FetcherNext
  \/ NotifierNext
  \/ SenderNext
  \/ \E i \in 1..MaxSpawns : AcquireWrite(i)
  \/ \E i \in 1..MaxSpawns : AcquireRead(i)

TaskSpec == Init /\ [][TaskManagerNext]_vars

\* Refresh executions, successful or failed, one after the other, with the
\* summary task and the query handlers reading; no task is cancelled.
RefreshNext ==
  \/ \E t \in {"fetcher", "sender"} : Schedule(t, ConfiguredWhen(t))
  \/ \E t \in {"fetcher", "sender"}, i \in 1..MaxSpawns : Tick(t, i)
  \/ FetcherNext
  \/ SenderNext
  \/ HandlerNext
  \/ GrantNext

RefreshSpec == Init /\ [][RefreshNext]_vars

\* The same, with the scheduling the runtime and the lock give: a granted
\* writer is woken and runs on, every reader that holds the guard goes on to
\* the end of its function (its send returns), a granted reader is woken.
ReaderSteps(i) == ReadTable(i) \/ ReadDone(i) \/ \E ok \in BOOLEAN : SummaryReturn(i, ok)
HandlerSteps(h) == HandlerRead(h) \/ HandlerReadDone(h) \/ HandlerReturn(h)

RefreshFairness ==
  /\ \A i \in 1..MaxSpawns : WF_vars(AcquireWrite(i))
  /\ \A i \in 1..MaxSpawns : WF_vars(AssignDashboard(i))
  /\ \A i \in 1..MaxSpawns : WF_vars(AcquireRead(i))
  /\ \A i \in 1..MaxSpawns : WF_vars(ReaderSteps(i))
  /\ \A h \in Handlers : WF_vars(HandlerAcquire(h))
  /\ \A h \in Handlers : WF_vars(HandlerSteps(h))

RefreshLive == RefreshSpec /\ RefreshFairness

\* A Dashboard of its own, new or built from tables, and calls of initialize.
InitializeInit ==
  /\ EngineIdle
  /\ BootIdle
  /\ QueryIdle
  /\ ClockIdle
  /\ score_tables \in {NoValue} \cup {Some(t) : t \in InitialDashboards}
  /\ init_arg = <<>>
  /\ init_ret = FALSE
  /\ init_calls = 0
  /\ CursorIdle
  /\ IngestIdle
  /\ ParseIdle

InitializeNext == \E tabs \in SeqsUpTo(MaxTables) : initialize(tabs)

InitializeSpec == InitializeInit /\ [][InitializeNext]_vars

\* A fresh request of any sheet, advanced and built in any order.
CursorInit ==
  /\ EngineIdle
  /\ BootIdle
  /\ QueryIdle
  /\ ClockIdle
  /\ InitIdle
  /\ \E id \in SheetIds, g \in BOOLEAN : request = NewRequest(id, g)
  /\ advances = 0
  /\ built = NoValue
  /\ IngestIdle
  /\ ParseIdle

CursorNext ==
  \/ NextTableRequest
  \/ Build

CursorSpec == CursorInit /\ [][CursorNext]_vars

\* A row of cells, parsed up to MaxParses times.
ParseInit ==
  /\ EngineIdle
  /\ BootIdle
  /\ QueryIdle
  /\ ClockIdle
  /\ InitIdle
  /\ CursorIdle
  /\ IngestIdle
  /\ row \in Rows
  /\ parsed = <<>>

ParseNext == Parse

ParseSpec == ParseInit /\ [][ParseNext]_vars

\* A block handed to fetch_score_table with either setting of the flag.
TableInit ==
  /\ EngineIdle
  /\ BootIdle
  /\ QueryIdle
  /\ ClockIdle
  /\ InitIdle
  /\ CursorIdle
  /\ ParseIdle
  /\ cycle = IdleCycle
  /\ titles = NoValue
  /\ block \in {Some(b) : b \in Blocks}
  /\ skip_arg \in BOOLEAN
  /\ score_table = NoValue

TableNext == FetchScoreTable

TableSpec == TableInit /\ [][TableNext]_vars

\* One call of fetch_dashboard.
IngestInit ==
  /\ EngineIdle
  /\ BootIdle
  /\ QueryIdle
  /\ ClockIdle
  /\ InitIdle
  /\ CursorIdle
  /\ ParseIdle
  /\ IngestIdle

IngestNext ==
  \/ \E response \in TitleResponses : FetchTitles(response)
  \/ \E response \in Windows : FetchWindow(response)

IngestSpec == IngestInit /\ [][IngestNext]_vars

\* Queries of a Dashboard that is absent, empty or holds tables.
QueryInit ==
  /\ EngineIdle
  /\ BootIdle
  /\ InitIdle
  /\ CursorIdle
  /\ IngestIdle
  /\ ParseIdle
  /\ ClockIdle
  /\ snapshot \in Snapshots
  /\ answers = <<>>

QueryNext ==
  \/ \E name \in QueriedNames : GetPersonByName(name)
  \/ \E person \in QueriedPersons : FindTable(person)
  \/ \E person \in QueriedPersons : LastFilledRecord(person)
  \/ \E date \in QueriedDates : Summary(date)

QuerySpec == QueryInit /\ [][QueryNext]_vars

\* The period label derived at one time, once or again.
ClockInit ==
  /\ EngineIdle
  /\ BootIdle
  /\ InitIdle
  /\ CursorIdle
  /\ IngestIdle
  /\ ParseIdle
  /\ QueryIdle
  /\ now \in Times
  /\ title_names = <<>>

ClockNext == DeriveTitleName

ClockSpec == ClockInit /\ [][ClockNext]_vars

\* ---------------------------------------------------------------- properties
\* The jobs of task t that have not finished, and those with an execution of
\* the task's work (do_update, do_notify, send_summary) in flight.
Unfinished(t) == {i \in 1..Len(jobs[t]) : jobs[t][i].st # "finished"}
Executions(t) == {i \in Unfinished(t) : jobs[t][i].pc # "sleeping"}

\* C1: at any time a task has at most one job that has not finished, hence
\* at most one execution of its work in flight, whatever the interleaving of
\* timer ticks, schedule calls and cancel calls.
C1_NoOverlap ==
  \A t \in TaskIds :
    /\ Cardinality(Unfinished(t)) <= 1
    /\ Cardinality(Executions(t)) <= 1

\* A task cancelled and scheduled again has an execution in flight, and a
\* schedule call made meanwhile was rejected.
C1_Witness ==
  \E t \in TaskIds : Len(jobs[t]) >= 2 /\ Executions(t) # {} /\ ret = FALSE

\* C2: a step taken while the job of a task has not finished, a call of
\* schedule included, leaves the task's `when` and handle as they were and
\* spawns no job; a call of schedule made then returns false.
C2_RejectedScheduleKeepsState ==
  [][\A t \in TaskIds :
       ~is_finished(t) =>
         /\ when'[t] = when[t]
         /\ handle'[t] = handle[t]
         /\ Len(jobs'[t]) = Len(jobs[t])
         /\ ret' # ret => ret' = FALSE]_vars

\* A schedule call was rejected: the task holds a handle (a call was accepted
\* and returned true), its job has not finished and the last call returned
\* false.
C2_Witness ==
  \E t \in TaskIds :
    /\ handle[t] # None
    /\ ~is_finished(t)
    /\ when[t] \in Whens
    /\ ret = FALSE

\* The lifecycle state of a task, read off its handle and the job behind it.
Life(t) ==
  IF handle[t] = None THEN "Idle"
  ELSE IF jobs[t][handle[t]].st # "live" THEN "Cancelled"
  ELSE IF jobs[t][handle[t]].pc = "sleeping" THEN "Scheduled"
  ELSE "Running"

ClaimedTransitions ==
  { <<"Idle", "Scheduled">>, <<"Scheduled", "Running">>, <<"Running", "Scheduled">>,
    <<"Scheduled", "Cancelled">>, <<"Running", "Cancelled">> }

\* C6 as stated: only the claimed transitions happen, Cancelled is terminal.
C6_CancelledIsTerminal ==
  [][\A t \in TaskIds :
       Life(t)' # Life(t) => <<Life(t), Life(t)'>> \in ClaimedTransitions]_vars

\* C6 amended: the lifecycle follows the claimed transitions and
\* Cancelled->Scheduled, which only an accepted schedule call takes, once the
\* cancelled job has finished, by spawning a new job; a job that was cancelled
\* is never live again and its timer never starts an execution again.
C6_Lifecycle ==
  [][\A t \in TaskIds :
       /\ Life(t)' # Life(t) =>
            <<Life(t), Life(t)'>> \in ClaimedTransitions \cup {<<"Cancelled", "Scheduled">>}
       /\ (Life(t) = "Cancelled" /\ Life(t)' # "Cancelled") =>
            /\ is_finished(t)
            /\ ret'
            /\ handle'[t] = Len(jobs[t]) + 1
            /\ jobs'[t] = Append(jobs[t], NewJob)
       /\ \A i \in 1..Len(jobs[t]) :
            jobs[t][i].st # "live" =>
              /\ jobs'[t][i].st # "live"
              /\ jobs[t][i].pc = "sleeping" => jobs'[t][i].pc = "sleeping"]_vars

\* A task that was cancelled and scheduled again is running once more.
C6_Witness ==
  \E t \in TaskIds : Len(jobs[t]) >= 2 /\ Life(t) = "Running"

\* C7: cancel is idempotent, and on a never-scheduled, finished or cancelled
\* task it changes nothing.
C7_CancelIdempotent ==
  \A t \in TaskIds :
    /\ cancel(cancel(jobs, t), t) = cancel(jobs, t)
    /\ Life(t) \in {"Idle", "Cancelled"} => cancel(jobs, t) = jobs

\* A cancelled task whose job is not yet dropped, next to one that finished.
C7_Witness ==
  \E t \in TaskIds :
    /\ Len(jobs[t]) >= 2
    /\ jobs[t][1].st = "finished"
    /\ jobs[t][handle[t]].st = "cancelled"
    /\ jobs[t][handle[t]].pc # "sleeping"

\* A refresh job on which cancel was called, parked at one of the suspension
\* points of do_update.
CancelledRefresh(i) ==
  /\ i \in 1..Len(jobs["fetcher"])
  /\ Job("fetcher", i).st # "live"
  /\ Job("fetcher", i).pc \in {"titles", "window", "wlock"}

\* What a cancelled refresh leaves behind: the Dashboard its execution started
\* with, no write guard; a finished job holds and awaits no lock.
CancelledRefreshState ==
  \A i \in 1..Len(jobs["fetcher"]) :
    /\ CancelledRefresh(i) =>
         /\ dashboard = Job("fetcher", i).base
         /\ <<"fetcher", i>> \notin rw.writers
    /\ Job("fetcher", i).st = "finished" =>
         /\ <<"fetcher", i>> \notin rw.writers
         /\ \A k \in 1..Len(rw.queue) : rw.queue[k] # <<"fetcher", i>>

\* C10: a refresh cancelled during the titles fetch, a window fetch or the
\* wait for the write lock leaves the Dashboard complete (the previous value;
\* any change of the Dashboard is to a complete fetched one), holds no lock,
\* and takes no further step but being dropped: it never writes.
C10_CancelledRefresh ==
  [][/\ CancelledRefreshState
     /\ CancelledRefreshState'
     /\ dashboard' # dashboard => dashboard' = fetched
     /\ \A i \in 1..Len(jobs["fetcher"]) :
          CancelledRefresh(i) =>
            /\ dashboard' = dashboard
            /\ jobs'["fetcher"][i] \in {Job("fetcher", i), DoneJob}]_vars

\* A refresh was cancelled while it waited for the write lock and has been
\* dropped: what it fetched was never published, the lock is free of it.
C10_Witness ==
  /\ jobs["fetcher"] # <<>>
  /\ \A i \in 1..Len(jobs["fetcher"]) : Job("fetcher", i).st = "finished"
  /\ fetched # dashboard
  /\ rw.writers = {}

\* The holders and waiters of the lock: what each has read, where it stands.
SeenOf(c) == IF c[1] = "handler" THEN hseen[c[2]] ELSE Job(c[1], c[2]).seen
PcOf(c) == IF c[1] = "handler" THEN hpc[c[2]] ELSE Job(c[1], c[2]).pc

\* A refresh execution stands between its successful fetch and its write.
Publishing ==
  \E i \in 1..Len(jobs["fetcher"]) : Job("fetcher", i).pc \in {"wlock", "locked"}

\* C3: a writer holds the lock alone; what a reader has read through its
\* guard is a prefix of the one published Dashboard, all of it once the read
\* is complete; and the published Dashboard is the complete value from before
\* the refresh in progress or the complete fetched one, never a mix.
C3_AtomicReplace ==
  /\ Cardinality(rw.writers) <= 1
  /\ rw.writers # {} => rw.readers = {}
  /\ \A c \in rw.readers :
       /\ IsPrefix(SeenOf(c), dashboard)
       /\ PcOf(c) = "sending" => SeenOf(c) = dashboard
  /\ \/ dashboard = fetched
     \/ \E i \in 1..Len(jobs["fetcher"]) :
          Job("fetcher", i).pc # "sleeping" /\ dashboard = Job("fetcher", i).base

\* A refresh with a different Dashboard waits for the write lock while a
\* reader is half way through the published one.
C3_Witness ==
  /\ \E i \in 1..Len(jobs["fetcher"]) :
       Job("fetcher", i).pc = "wlock" /\ Job("fetcher", i).tables # dashboard
  /\ \E c \in rw.readers : SeenOf(c) # <<>> /\ Len(SeenOf(c)) < Len(dashboard)

\* C4: a refresh execution inside fetch_dashboard neither holds nor awaits the
\* write lock, and the step on which its cycle fails leaves the Dashboard as it
\* was when the execution started and the lock untouched.
C4_FailedIngestion ==
  [][\A i \in 1..Len(jobs["fetcher"]) :
       Job("fetcher", i).pc \in {"titles", "window"} =>
         /\ <<"fetcher", i>> \notin rw.writers
         /\ \A k \in 1..Len(rw.queue) : rw.queue[k] # <<"fetcher", i>>
         /\ jobs'["fetcher"][i].pc = "sleeping" =>
              /\ last' = Outcome("fetcher", FALSE)
              /\ dashboard' = dashboard
              /\ dashboard = Job("fetcher", i).base
              /\ rw' = rw]_vars

\* The last execution that ended was a refresh that failed, and a Dashboard
\* with tables is still published.
C4_Witness ==
  /\ last = Outcome("fetcher", FALSE)
  /\ dashboard # <<>>
  /\ \A i \in 1..Len(jobs["fetcher"]) : Job("fetcher", i).pc = "sleeping"

\* C5: unless a refresh stands between its successful fetch and its write,
\* the published Dashboard is the one the last successful fetch_dashboard
\* returned (the initial one if none succeeded since), and what a reader
\* holding the guard has read is a prefix of it, all of it once complete.
C5_LatestSuccessful ==
  ~Publishing =>
    /\ dashboard = fetched
    /\ \A c \in rw.readers :
         /\ IsPrefix(SeenOf(c), fetched)
         /\ PcOf(c) = "sending" => SeenOf(c) = fetched

\* A refresh published, and a reader that took the lock afterwards has read
\* all of the new Dashboard.
C5_Witness ==
  /\ last = Outcome("fetcher", TRUE)
  /\ ~Publishing
  /\ fetched # <<>>
  /\ \E c \in rw.readers : PcOf(c) = "sending" /\ SeenOf(c) = fetched

\* C8: the step on which an execution of a live job fails puts that job back
\* in its timer loop, armed for the next tick, and touches nothing else: not
\* the task's `when` and handle, not the jobs of the other tasks, not the
\* registry.
C8_FailureIsolated ==
  [][\A t \in TaskIds : \A i \in 1..Len(jobs[t]) :
       ( /\ jobs[t][i].st = "live"
         /\ jobs[t][i].pc # "sleeping"
         /\ jobs'[t][i].pc = "sleeping"
         /\ last' = Outcome(t, FALSE) ) =>
         /\ Armed(jobs'[t][i])
         /\ \A k \in 1..Len(jobs[t]) : k # i => jobs'[t][k] = jobs[t][k]
         /\ Len(jobs'[t]) = Len(jobs[t])
         /\ \A u \in TaskIds \ {t} : jobs'[u] = jobs[u]
         /\ handle' = handle
         /\ when' = when
         /\ tasks' = tasks
         /\ dashboard' = dashboard]_vars

\* With all three tasks registered, the task whose execution failed last is
\* running a new execution.
C8_Witness ==
  /\ Len(tasks) = Len(TaskOrder)
  /\ \E t \in TaskIds :
       /\ last = Outcome(t, FALSE)
       /\ handle[t] # None
       /\ Job(t, handle[t]).st = "live"
       /\ Job(t, handle[t]).pc # "sleeping"

FinalizedCancelled == \A k \in 1..finalized : Life(tasks[k]) = "Cancelled"

\* C11: every task the loop of finalize_tasks has gone through is cancelled,
\* and once the loop is over no job of any registered task leaves its timer
\* loop to start an execution and no new job is spawned, whatever state the
\* tasks were in when the loop reached them.
C11_FinalizeCancelsAll ==
  [][/\ FinalizedCancelled
     /\ FinalizedCancelled'
     /\ finalized = Len(TaskOrder) =>
          \A t \in TaskIds :
            /\ Len(jobs'[t]) = Len(jobs[t])
            /\ \A i \in 1..Len(jobs[t]) :
                 jobs[t][i].pc = "sleeping" => jobs'[t][i].pc = "sleeping"]_vars

\* finalize_tasks is over; it met one task running, which has been stopped at
\* an await and not yet dropped, and one already cancelled and dropped.
C11_Witness ==
  /\ finalized = Len(TaskOrder)
  /\ \E t \in TaskIds : Job(t, handle[t]).st = "cancelled" /\ Job(t, handle[t]).pc # "sleeping"
  /\ \E t \in TaskIds : Job(t, handle[t]).st = "finished"

\* The registered tasks that are active: their job has not been cancelled.
ActiveTasks == {t \in TaskIds : Life(t) \in {"Scheduled", "Running"}}

\* C12 as stated: tasks(category) is the sequence of the active registered
\* tasks of the category, in registration order; a cancelled task is not
\* listed.
C12_ListsActiveOnly ==
  \A ty \in {"Fetcher", "Notifier"} :
    tasks_by_type(ty) = Filter(tasks, {t \in ActiveTasks : task_type(t) = ty})

\* C13: a call of initialize on a Dashboard without tables stores its
\* argument and returns true; on a populated Dashboard it returns false and
\* the tables held stay; so whatever is held is never replaced by a later call.
C13_InitializeOnce ==
  [][/\ init_calls' = init_calls + 1 =>
          IF score_tables = NoValue
          THEN score_tables' = Some(init_arg') /\ init_ret' = TRUE
          ELSE score_tables' = score_tables /\ init_ret' = FALSE
     /\ IsSome(score_tables) => score_tables' = score_tables]_vars

\* A second call with other tables was rejected on a Dashboard the first call
\* had filled.
C13_Witness ==
  /\ init_calls >= 2
  /\ init_ret = FALSE
  /\ IsSome(score_tables)
  /\ Unwrap(score_tables) # init_arg

\* C14: after n calls of next_table_request on a fresh request the column
\* bounds are 1 + 10n and 10 + 10n and the row bounds 3 and 35; no call
\* changes the sheet id or the include-values flag, and build changes nothing
\* of the request.
C14_CursorAdvance ==
  [][/\ request.start_column_index = 1 + 10 * advances
     /\ request.end_column_index = 10 + 10 * advances
     /\ request.start_row_index = 3
     /\ request.end_row_index = 35
     /\ request'.start_column_index = 1 + 10 * advances'
     /\ request'.end_column_index = 10 + 10 * advances'
     /\ request'.start_row_index = 3
     /\ request'.end_row_index = 35
     /\ request'.sheet_id = request.sheet_id
     /\ request'.include_grid_data = request.include_grid_data
     /\ built' # built => request' = request]_vars

\* A request advanced twice at least, whose window was then built.
C14_Witness ==
  /\ advances >= 2
  /\ built = Some(build(request))
  /\ request.start_column_index > INITIAL_END_COLUMN_INDEX


\* Every cell of a 9-cell row parses.
AllParse(cells) ==
  /\ Len(cells) = 9
  /\ parse_date(cells[1]).kind = "Ok"
  /\ \A i \in 1..7 : parse_score(cells[i + 1], i).kind = "Ok"
  /\ parse_percentage(cells[9]).kind = "Ok"

\* C18: for a 9-cell row whose cells all parse, from_vec returns a Record
\* whose date is the value of column 0, whose category scores are the values
\* of columns 1..6 in the order sport, professional growth, health, spiritual
\* growth, foreign language, personal, whose total is the value of column 7
\* as supplied, whose percentage is the value of column 8, and has_total
\* holds iff the total differs from 0; the row 01.03.2024, 5, 3, 4, 2, 1, 0,
\* 15, 60% gives the Record 2024-03-01, [5, 3, 4, 2, 1, 0], 15, 60.
C18_RecordOfColumns ==
  \A n \in 1..Len(parsed) :
    AllParse(row) =>
      /\ parsed[n].kind = "Ok"
      /\ LET rec == parsed[n].value IN
           /\ rec.date = parse_date(row[1]).value
           /\ rec.scores.sport = parse_score(row[2], 1).value
           /\ rec.scores.professional_growth = parse_score(row[3], 2).value
           /\ rec.scores.health = parse_score(row[4], 3).value
           /\ rec.scores.spiritual_growth = parse_score(row[5], 4).value
           /\ rec.scores.foreign_language = parse_score(row[6], 5).value
           /\ rec.scores.personal_dev = parse_score(row[7], 6).value
           /\ rec.total_score = parse_score(row[8], 7).value
           /\ rec.percent = parse_percentage(row[9]).value
           /\ has_total(rec) <=> rec.total_score # 0
           /\ row = ExampleRow => rec = ExampleRecord /\ has_total(rec)

\* A 9-cell row was parsed into a Record whose total is not the sum of its
\* categories.
C18_Witness ==
  /\ AllParse(row)
  /\ parsed # <<>>
  /\ parsed[1].kind = "Ok"
  /\ LET rec == parsed[1].value IN
       /\ has_total(rec)
       /\ rec.total_score # rec.scores.sport + rec.scores.professional_growth
            + rec.scores.health + rec.scores.spiritual_growth
            + rec.scores.foreign_language + rec.scores.personal_dev

\* C19: the row parser is total and deterministic: every call of from_vec
\* returns a Record or a classified error, never aborts abnormally, and two
\* calls on the same row return equal outcomes.
C19_ParserTotal ==
  \A n \in 1..Len(parsed) :
    /\ parsed[n].kind \in {"Ok", "Err"}
    /\ parsed[n] = parsed[1]

\* The type a cell declares: that of its number format, if it has all of it.
DeclaredType(cell) ==
  IF IsSome(cell.effective_format) /\ IsSome(Unwrap(cell.effective_format).number_format)
  THEN Unwrap(Unwrap(cell.effective_format).number_format).type_
  ELSE NoValue

\* The string is three runs of digits with a point between them.
DayMonthYear(s) ==
  \E i, j \in 1..Len(s) :
    /\ 1 < i /\ i + 1 < j /\ j < Len(s)
    /\ s[i] = "." /\ s[j] = "."
    /\ \A k \in (1..Len(s)) \ {i, j} : s[k] \in DigitChars

\* C20: column 0 yields a date only if the cell's declared type is DATE and
\* its formatted string matches day.month.year; a cell of another declared
\* type, a DATE cell without a formatted value and a DATE cell whose string
\* does not parse make from_vec return a classified error, never a Record.
C20_DateColumn ==
  \A n \in 1..Len(parsed) :
    Len(row) >= 1 =>
      LET cell == row[1]
          declared == DeclaredType(cell)
          value == cell.formatted_value
      IN  /\ parsed[n].kind = "Ok" =>
               /\ declared = Some("DATE")
               /\ IsSome(value)
               /\ DayMonthYear(Unwrap(value))
               /\ parsed[n].value.date = parse_from_str(Unwrap(value)).value
          /\ (IsSome(declared) /\ Unwrap(declared) # "DATE") => parsed[n].kind = "Err"
          /\ (declared = Some("DATE") /\ ~IsSome(value)) => parsed[n].kind = "Err"
          /\ (declared = Some("DATE") /\ IsSome(value)
                /\ parse_from_str(Unwrap(value)).kind # "Ok") => parsed[n].kind = "Err"

\* A row whose date cell has a date string and the declared type NUMBER was
\* parsed.
C20_Witness ==
  /\ parsed # <<>>
  /\ Len(row) = 9
  /\ DeclaredType(row[1]) = Some("NUMBER")
  /\ IsSome(row[1].formatted_value)
  /\ parse_from_str(Unwrap(row[1].formatted_value)).kind = "Ok"
  /\ parsed[1].kind = "Err"


\* The rows of a block whose structure is whole down to its rows; no rows
\* otherwise.
RowsOf(response) ==
  IF /\ response.kind = "Ok"
     /\ IsSome(response.value.sheets)
     /\ Len(Unwrap(response.value.sheets)) = 1
     /\ IsSome(Unwrap(response.value.sheets)[1].data)
     /\ Unwrap(Unwrap(response.value.sheets)[1].data) # <<>>
     /\ IsSome(Unwrap(Unwrap(response.value.sheets)[1].data)[1].row_data)
  THEN Unwrap(Unwrap(Unwrap(response.value.sheets)[1].data)[1].row_data)
  ELSE <<>>

\* The block has a first row with a first cell.
HasNameCell(response) ==
  /\ RowsOf(response) # <<>>
  /\ IsSome(RowsOf(response)[1].values)
  /\ Unwrap(RowsOf(response)[1].values) # <<>>

NameCellOf(response) == Unwrap(RowsOf(response)[1].values)[1]

\* The first cell of the block's first row has an empty or absent formatted
\* value.
TerminatorBlock(response) ==
  /\ HasNameCell(response)
  /\ NameCellOf(response).formatted_value \in {NoValue, Some(<<>>)}

\* The step is a window fetch of the cycle.
WindowFetched == cycle'.fetches = cycle.fetches + 1

\* C15: when the first row of a fetched block has a first cell whose
\* formatted value is empty or absent, the loop stops and fetch_dashboard
\* returns success with exactly the tables accumulated so far, whatever the
\* rest of the block holds.
C15_Terminator ==
  [][(WindowFetched /\ TerminatorBlock(Unwrap(block')))
       => /\ cycle'.pc = "done"
          /\ cycle'.result = Some(Ok(Dashboard_from(cycle.tables)))]_vars

\* The error fetch_dashboard has to return for the titles' response, if any.
TitlesFailure(response) ==
  IF response.kind = "Err" THEN Some(GoogleSheetsApiError)
  ELSE IF ~IsSome(response.value.sheets) THEN Some(InvalidFetchedData("EmptySheets"))
  ELSE IF \A i \in 1..Len(Unwrap(response.value.sheets)) :
            LET props == Unwrap(response.value.sheets)[i].properties IN
            ~(IsSome(props) /\ Unwrap(props).title = Some(DerivedTitle))
  THEN Some(NotFoundSheetId(DerivedTitle))
  ELSE NoValue

\* The failure of a window fetch, if any: the remote's error, an absent
\* sheet collection, a result that is not one sheet, an absent grid, row or
\* cell structure, a data row that does not parse.
WindowFailure(response) ==
  LET rows == RowsOf(response) IN
  IF response.kind = "Err" THEN Some(GoogleSheetsApiError)
  ELSE IF ~IsSome(response.value.sheets) THEN Some(InvalidFetchedData("EmptySheets"))
  ELSE IF Len(Unwrap(response.value.sheets)) # 1 THEN Some(InvalidFetchedData("InvalidVectorSize"))
  ELSE IF ~IsSome(Unwrap(response.value.sheets)[1].data)
          \/ Unwrap(Unwrap(response.value.sheets)[1].data) = <<>>
  THEN Some(InvalidFetchedData("EmptyGridData"))
  ELSE IF ~IsSome(Unwrap(Unwrap(response.value.sheets)[1].data)[1].row_data)
  THEN Some(InvalidFetchedData("EmptyRowData"))
  ELSE IF ~HasNameCell(response) THEN Some(InvalidFetchedData("EmptyCellData"))
  ELSE IF ~IsSome(NameCellOf(response).formatted_value) THEN NoValue
  ELSE IF \E k \in 2..Len(rows) :
            /\ \A j \in 2..(k - 1) : IsSome(rows[j].values)
                                      /\ from_vec(Unwrap(rows[j].values)).kind = "Ok"
            /\ ~IsSome(rows[k].values)
  THEN Some(InvalidFetchedData("EmptyCellData"))
  ELSE IF \E k \in 2..Len(rows) :
            /\ \A j \in 2..(k - 1) : IsSome(rows[j].values)
                                      /\ from_vec(Unwrap(rows[j].values)).kind = "Ok"
            /\ IsSome(rows[k].values)
            /\ from_vec(Unwrap(rows[k].values)).kind = "Err"
  THEN LET k == CHOOSE k \in 2..Len(rows) :
                  /\ \A j \in 2..(k - 1) : from_vec(Unwrap(rows[j].values)).kind = "Ok"
                  /\ from_vec(Unwrap(rows[k].values)).kind = "Err"
       IN  Some(HubError("ScoreTableRecordError", "", Some(from_vec(Unwrap(rows[k].values)).error)))
  ELSE NoValue

\* C16: any failure of a cycle other than the empty name cell makes
\* fetch_dashboard return that error at once: the cycle is over with the
\* error as its result and no Snapshot, whatever tables it had accumulated,
\* and a cycle that is over fetches nothing more, the failed window included.
C16_FailureAborts ==
  [][/\ (cycle.pc = "idle" /\ cycle'.pc # "idle" /\ IsSome(TitlesFailure(Unwrap(titles'))))
          => /\ cycle'.pc = "done"
             /\ cycle'.result = Some(Err(Unwrap(TitlesFailure(Unwrap(titles')))))
             /\ cycle'.fetches = 0
     /\ (WindowFetched /\ IsSome(WindowFailure(Unwrap(block'))))
          => /\ cycle'.pc = "done"
             /\ cycle'.result = Some(Err(Unwrap(WindowFailure(Unwrap(block')))))
             /\ cycle'.tables = cycle.tables
     /\ cycle.pc = "done" => (cycle' = cycle /\ block' = block)]_vars

\* A cycle that had accumulated a table ended with the error of a window
\* whose result held two sheets.
C16_Witness ==
  /\ cycle.pc = "done"
  /\ Len(cycle.tables) >= 1
  /\ cycle.result = Some(Err(InvalidFetchedData("InvalidVectorSize")))
  /\ IsSome(block)
  /\ WindowFailure(Unwrap(block)) = Some(InvalidFetchedData("InvalidVectorSize"))

\* The block has a name and cells in every row.
WholeBlock(response) ==
  /\ HasNameCell(response)
  /\ IsSome(NameCellOf(response).formatted_value)
  /\ \A k \in 1..Len(RowsOf(response)) : IsSome(RowsOf(response)[k].values)

\* The data row k of the block fails to parse.
FailsToParse(response, k) == from_vec(Unwrap(RowsOf(response)[k + 1].values)).kind # "Ok"

\* C17: row-parse failures follow the flag.  With the flag off the first
\* data row that fails to parse makes the call return that row's parse
\* error; with the flag on the call returns a table of one Record per data
\* row, in row order, a failing row's Record being the placeholder, whose
\* has_total is false.
C17_FlagDecides ==
  (IsSome(score_table) /\ WholeBlock(Unwrap(block))) =>
    LET response == Unwrap(block)
        rows == RowsOf(response)
        n == Len(rows) - 1
        result == Unwrap(score_table)
    IN  IF skip_arg
        THEN /\ result.kind = "Ok"
             /\ Len(result.value.table) = n
             /\ ~has_total(DefaultRecord)
             /\ \A k \in 1..n :
                  result.value.table[k] =
                    IF FailsToParse(response, k) THEN DefaultRecord
                    ELSE from_vec(Unwrap(rows[k + 1].values)).value
        ELSE IF \E k \in 1..n : FailsToParse(response, k)
        THEN LET k == CHOOSE k \in 1..n :
                        FailsToParse(response, k) /\ \A j \in 1..(k - 1) : ~FailsToParse(response, j)
                 outcome == from_vec(Unwrap(rows[k + 1].values))
             IN  /\ result.kind = "Err"
                 /\ outcome.kind = "Err"
                 /\ result.error = HubError("ScoreTableRecordError", "", Some(outcome.error))
        ELSE result.kind = "Ok"


\* The score a Record holds for column i of its row.
ScoreOf(rec, i) ==
  CASE i = 1 -> rec.scores.sport
    [] i = 2 -> rec.scores.professional_growth
    [] i = 3 -> rec.scores.health
    [] i = 4 -> rec.scores.spiritual_growth
    [] i = 5 -> rec.scores.foreign_language
    [] i = 6 -> rec.scores.personal_dev
    [] i = 7 -> rec.total_score

\* The underlying numeric value of a cell, if it has one.
Underlying(cell) ==
  IF IsSome(cell.effective_value) THEN Unwrap(cell.effective_value).number_value ELSE NoValue

\* C21: for each score column 1..7, an absent formatted value yields the
\* sentinel 0 and no error, also when an underlying value is present; a
\* formatted value that parses as a number yields that number (1.5 yields
\* one and a half); one that does not parse yields the underlying numeric
\* value when there is one, and otherwise a score parse error carrying the
\* column's index; a Record of the row holds the score in the column's field.
C21_ScoreColumns ==
  \A n \in 1..Len(parsed) : \A i \in 1..7 :
    Len(row) > i =>
      LET cell == row[i + 1]
          text == cell.formatted_value
          score == parse_score(cell, i)
      IN  /\ ~IsSome(text) => score = Ok(0)
          /\ (IsSome(text) /\ parse_f64(Unwrap(text)).kind = "Ok")
               => score = Ok(parse_f64(Unwrap(text)).value)
          /\ text = Some(<<"1", ".", "5">>) => score = Ok(150)
          /\ (IsSome(text) /\ parse_f64(Unwrap(text)).kind = "Err" /\ IsSome(Underlying(cell)))
               => score = Ok(Unwrap(Underlying(cell)))
          /\ (IsSome(text) /\ parse_f64(Unwrap(text)).kind = "Err" /\ ~IsSome(Underlying(cell)))
               => /\ score.kind = "Err"
                  /\ score.error.variant = "ScoreParseError"
                  /\ score.error.index = i
          /\ parsed[n].kind = "Ok"
               => score.kind = "Ok" /\ ScoreOf(parsed[n].value, i) = score.value

\* A row was parsed into a Record although a score cell's string is no
\* number: the Record holds the cell's underlying value; and a row with a
\* score cell without a formatted value but with an underlying value was
\* parsed into a Record holding 0.
C21_Witness ==
  /\ parsed # <<>>
  /\ parsed[1].kind = "Ok"
  /\ \E i \in 1..7 :
       /\ Len(row) > i
       /\ \/ /\ IsSome(row[i + 1].formatted_value)
             /\ parse_f64(Unwrap(row[i + 1].formatted_value)).kind = "Err"
             /\ ScoreOf(parsed[1].value, i) = 150
          \/ /\ ~IsSome(row[i + 1].formatted_value)
             /\ IsSome(Underlying(row[i + 1]))
             /\ ScoreOf(parsed[1].value, i) = 0

\* C22: for column 8, an absent formatted value yields percentage 0 and no
\* error; a value ending with % whose prefix parses as an integer yields
\* that integer (60% yields 60, -5% yields -5); a value not ending with %
\* yields an invalid-percent-cell error; a value ending with % whose prefix
\* does not parse as an integer yields a percent parse error; a Record of
\* the row holds the percentage.
C22_PercentColumn ==
  \A n \in 1..Len(parsed) :
    Len(row) > 8 =>
      LET text == row[9].formatted_value
          percent == parse_percentage(row[9])
          ends == IsSome(text) /\ Unwrap(text) # <<>> /\ Unwrap(text)[Len(Unwrap(text))] = "%"
          prefix == SubSeq(Unwrap(text), 1, Len(Unwrap(text)) - 1)
      IN  /\ ~IsSome(text) => percent = Ok([value |-> 0])
          /\ (ends /\ parse_i32(prefix).kind = "Ok")
               => percent = Ok([value |-> parse_i32(prefix).value])
          /\ text = Some(<<"6", "0", "%">>) => percent = Ok([value |-> 60])
          /\ text = Some(<<"-", "5", "%">>) => percent = Ok([value |-> -5])
          /\ (IsSome(text) /\ ~ends)
               => percent.kind = "Err" /\ percent.error.variant = "InvalidPercentCell"
          /\ (ends /\ parse_i32(prefix).kind = "Err")
               => percent.kind = "Err" /\ percent.error.variant = "PercentParseError"
          /\ parsed[n].kind = "Ok"
               => percent.kind = "Ok" /\ parsed[n].value.percent = percent.value

\* A 9-cell row whose percent cell holds a number without the sign was
\* parsed: the outcome is the invalid-percent-cell error.
C22_Witness ==
  /\ parsed # <<>>
  /\ Len(row) = 9
  /\ row[9].formatted_value = Some(<<"6", "0">>)
  /\ parsed[1].kind = "Err"
  /\ parsed[1].error.variant = "InvalidPercentCell"

\* The outcome of parsing cell i (counted from 0) of the row on its own.
CellOutcome(cells, i) ==
  IF i = 0 THEN parse_date(cells[1])
  ELSE IF i = 8 THEN parse_percentage(cells[9])
  ELSE parse_score(cells[i + 1], i)

\* C23: a row with more than 9 cells never yields a Record: when cells 0..8
\* all parse the outcome is the unexpected-field-index error carrying 9;
\* when one of them does not parse, the outcome is an error, the one of the
\* leftmost such cell.
C23_LongRow ==
  \A n \in 1..Len(parsed) :
    Len(row) > 9 =>
      /\ parsed[n].kind # "Ok"
      /\ (\A i \in 0..8 : CellOutcome(row, i).kind = "Ok")
           => parsed[n] = Err(RecordError("UnexpectedFieldIndex", "", "", 9))
      /\ \A i \in 0..8 :
           (/\ \A j \in 0..(i - 1) : CellOutcome(row, j).kind = "Ok"
            /\ CellOutcome(row, i).kind # "Ok")
             => parsed[n].kind = "Err" /\ parsed[n] = CellOutcome(row, i)


\* The six category scores of a Record.
CategoryScores(rec) ==
  { rec.scores.sport, rec.scores.professional_growth, rec.scores.health,
    rec.scores.spiritual_growth, rec.scores.foreign_language, rec.scores.personal_dev }

\* The Records of the Snapshot an ingestion cycle returned for publication.
CycleRecords ==
  IF IsSome(cycle.result) /\ Unwrap(cycle.result).kind = "Ok"
  THEN LET tables == Unwrap(Unwrap(cycle.result).value.score_tables) IN
       UNION {{tables[t].table[r] : r \in 1..Len(tables[t].table)} : t \in 1..Len(tables)}
  ELSE {}

\* C24: every category score of every Record of a Snapshot that an
\* ingestion cycle returns for publication is at least 0.
C24_ScoresNonNegative ==
  \A rec \in CycleRecords : \A score \in CategoryScores(rec) : score >= 0


\* The tables of the Dashboard queried, none when it is absent.
SnapshotTables == IF IsSome(snapshot) THEN Unwrap(snapshot) ELSE <<>>

\* The positions of the Records of a table that have a total and the date.
FilledOn(table, date) ==
  {r \in 1..Len(table.table) :
     table.table[r].date = date /\ table.table[r].total_score # UNITITIALIZED_SCORE}

TablesOf(person) == {t \in 1..Len(SnapshotTables) : SnapshotTables[t].person = person}
TablesNamed(name) == {t \in 1..Len(SnapshotTables) : SnapshotTables[t].person.name = name}
Least(S) == CHOOSE i \in S : \A j \in S : i <= j
Greatest(S) == CHOOSE i \in S : \A j \in S : i >= j

\* C27: last_filled_record(entity) returns the last Record, in insertion
\* order, of the entity's table that has a total; it returns none when the
\* Snapshot is absent, when no table carries the entity, and when no Record
\* of the table has a total. The entity's table is the first that carries it.
C27_LastFilledRecord ==
  \A n \in 1..Len(answers) :
    answers[n].op = "last_filled_score_table_record" =>
      LET result == answers[n].result IN
      IF TablesOf(answers[n].arg) = {} THEN result = NoValue
      ELSE LET table == SnapshotTables[Least(TablesOf(answers[n].arg))].table
               filled == {r \in 1..Len(table) : table[r].total_score # UNITITIALIZED_SCORE}
           IN  /\ filled = {} => result = NoValue
               /\ filled # {} => result = Some(table[Greatest(filled)])
               /\ table = <<FilledRecord, LaterRecord>> => result = Some(LaterRecord)
               /\ table = <<FilledRecord, UnfilledRecord>> => result = Some(FilledRecord)

\* The last filled Record was asked of an entity whose table ends with a
\* Record without a total, after one with a total.
C27_Witness ==
  /\ answers # <<>>
  /\ answers[1].op = "last_filled_score_table_record"
  /\ snapshot = Some(<<ScoreTable(Person(Ann), <<FilledRecord, UnfilledRecord>>)>>)
  /\ answers[1].arg = Person(Ann)
  /\ answers[1].result = Some(FilledRecord)

\* C28: entity_by_name(name) returns the entity of the first table whose
\* name equals name exactly, and nothing iff the Snapshot is absent or no
\* table has that name; the table lookup of an entity returns the first
\* table that carries it, also when two tables carry the same name.
C28_FirstOfName ==
  \A n \in 1..Len(answers) :
    /\ answers[n].op = "get_person_by_name" =>
         /\ answers[n].result = NoValue
              <=> (~IsSome(snapshot) \/ TablesNamed(answers[n].arg) = {})
         /\ TablesNamed(answers[n].arg) # {} =>
              answers[n].result = Some(SnapshotTables[Least(TablesNamed(answers[n].arg))].person)
         /\ answers[n].arg = <<"a", "n", "n">> => answers[n].result = NoValue
    /\ answers[n].op = "find_table" =>
         /\ answers[n].result = NoValue <=> TablesOf(answers[n].arg) = {}
         /\ TablesOf(answers[n].arg) # {} =>
              answers[n].result = Some(SnapshotTables[Least(TablesOf(answers[n].arg))])

\* The table of an entity was asked of a Snapshot with two tables of its
\* name that hold different Records: the first was returned.
C28_Witness ==
  /\ answers # <<>>
  /\ answers[1].op = "find_table"
  /\ Len(SnapshotTables) = 2
  /\ SnapshotTables[1].person = SnapshotTables[2].person
  /\ SnapshotTables[1] # SnapshotTables[2]
  /\ answers[1].arg = SnapshotTables[1].person
  /\ answers[1].result = Some(SnapshotTables[1])


\* C26: when the Snapshot has no entities, an execution of the summary task
\* sends no message, ends as a success and leaves the task scheduled; when
\* it has entities, the execution attempts one message: it goes on to the
\* send, the send is entered from the summary only, and after the send the
\* execution is over.
C26_EmptySummaryIsNoOp ==
  [][\A i \in 1..Len(jobs["sender"]) :
       /\ (jobs["sender"][i].pc = "reading" /\ jobs'["sender"][i].pc # "reading") =>
            IF dashboard = <<>>
            THEN /\ jobs'["sender"][i].pc = "sleeping"
                 /\ last' = Outcome("sender", TRUE)
                 /\ <<"sender", i>> \notin rw'.readers
                 /\ (handle["sender"] = i /\ jobs["sender"][i].st = "live")
                      => Life("sender")' = "Scheduled"
            ELSE jobs'["sender"][i].pc = "sending"
       /\ (jobs["sender"][i].pc # "sending" /\ jobs'["sender"][i].pc = "sending") =>
            jobs["sender"][i].pc = "reading" /\ dashboard # <<>>
       /\ (jobs["sender"][i].pc = "sending" /\ jobs'["sender"][i].pc # "sending") =>
            jobs'["sender"][i].pc = "sleeping"
    ]_vars

\* An execution of the summary task on a Snapshot without entities has
\* ended, the task is scheduled, and nothing is being sent.
C26_Witness ==
  /\ dashboard = <<>>
  /\ fetched = <<>>
  /\ last = Outcome("sender", TRUE)
  /\ Life("sender") = "Scheduled"


\* The Russian names of the months, in Latin letters.
RussianMonths ==
  << <<"Y", "a", "n", "v", "a", "r">>, <<"F", "e", "v", "r", "a", "l">>, <<"M", "a", "r", "t">>, <<"A", "p", "r", "e", "l">>, <<"M", "a", "j">>, <<"I", "y", "u", "n">>,
     <<"I", "y", "u", "l">>, <<"A", "v", "g", "u", "s", "t">>, <<"S", "e", "n", "t", "y", "a", "b", "r">>, <<"O", "k", "t", "y", "a", "b", "r">>, <<"N", "o", "y", "a", "b", "r">>, <<"D", "e", "k", "a", "b", "r">> >>

\* C29: the period label derived at a time of month m of year y is the
\* Russian name of month m, one space and the last two digits of y, whatever
\* the day; deriving it again at the same time yields the same label.
C29_PeriodLabel ==
  \A n \in 1..Len(title_names) :
    /\ title_names[n] = Ok(RussianMonths[now.month] \o <<" ">>
                             \o <<Digits[((now.year % 100) \div 10) + 1],
                                  Digits[(now.year % 10) + 1]>>)
    /\ title_names[n] = title_names[1]
    /\ (now.year = 2024 /\ now.month = 3) => title_names[n] = Ok(DerivedTitle)

\* The label was derived twice in a month of a year whose last two digits
\* begin with 0.
C29_Witness ==
  /\ Len(title_names) = 2
  /\ now.year = 2009
  /\ now.month = 12
  /\ title_names[2] = Ok(<<"D", "e", "k", "a", "b", "r", " ", "0", "9">>)


\* The positions of the sheets whose properties hold the derived title.
TitledSheets(sheets) ==
  {i \in 1..Len(sheets) :
     /\ IsSome(sheets[i].properties)
     /\ Unwrap(sheets[i].properties).title = Some(DerivedTitle)}

\* C30: when the titles fetch returned sheets, the cycle goes on with the id
\* of a sheet whose title equals the derived label exactly whenever there is
\* such a sheet, sheets without properties or without a title being passed
\* over, and it fails with the not-found-sheet-id error carrying the label
\* iff no sheet has that title.
C30_SheetResolution ==
  [][(/\ cycle.pc = "idle"
      /\ cycle'.pc # "idle"
      /\ Unwrap(titles').kind = "Ok"
      /\ IsSome(Unwrap(titles').value.sheets)) =>
       LET sheets == Unwrap(Unwrap(titles').value.sheets) IN
       /\ TitledSheets(sheets) # {} =>
            /\ cycle'.pc = "loop"
            /\ \E i \in TitledSheets(sheets) :
                 Unwrap(sheets[i].properties).sheet_id = Some(request'.sheet_id)
       /\ cycle'.result = Some(Err(NotFoundSheetId(DerivedTitle)))
            <=> TitledSheets(sheets) = {}]_vars


\* The structural absence of a window's result, if it has one down to the
\* cells of its first row: the kind of error the absence belongs to.
StructuralAbsence(response) ==
  IF ~IsSome(response.value.sheets) THEN Some("EmptySheets")
  ELSE IF Len(Unwrap(response.value.sheets)) # 1 THEN Some("InvalidVectorSize")
  ELSE IF Unwrap(response.value.sheets)[1].data \in {NoValue, Some(<<>>)}
  THEN Some("EmptyGridData")
  ELSE IF ~IsSome(Unwrap(Unwrap(response.value.sheets)[1].data)[1].row_data)
  THEN Some("EmptyRowData")
  ELSE IF Unwrap(Unwrap(Unwrap(response.value.sheets)[1].data)[1].row_data) = <<>>
  THEN Some("EmptyCellData")
  ELSE IF Unwrap(Unwrap(Unwrap(response.value.sheets)[1].data)[1].row_data)[1].values
            \in {NoValue, Some(<<>>)}
  THEN Some("EmptyCellData")
  ELSE NoValue

MaxReads == 2

bootFrame ==
  <<engineVars, finalized, initVars, cursorVars, ingestVars, parseVars, queryVars, clockVars,
    source>>

\* What a call of fetch_dashboard can return: a Dashboard made of the tables
\* it collected, or the error that ended the cycle.
FetchDashboardResults ==
  {Ok(Dashboard_from(tables)) : tables \in TuplesUpTo({ScoreTable(Person(Ann), <<>>)}, MaxEntities)}
    \cup {Err(InvalidFetchedData("EmptySheets")), Err(NotFoundSheetId(DerivedTitle))}

\* AsyncSheetsHub::new(...).await? : its error ends Congratulator::new.
NewHub(ok) ==
  /\ boot.pc = "new"
  /\ boot' = [boot EXCEPT !.pc = IF ok THEN "dashboard" ELSE "failed"]
  /\ UNCHANGED <<shared, observed, bootFrame>>

\* Arc::new(RwLock::new(hub.fetch_dashboard().await?)).
NewDashboard(result) ==
  /\ boot.pc = "dashboard"
  /\ IF result.kind = "Ok"
       THEN /\ shared' = Some(result.value)
            /\ boot' = [boot EXCEPT !.pc = "tasks"]
       ELSE /\ boot' = [boot EXCEPT !.pc = "failed"]
            /\ UNCHANGED shared
  /\ UNCHANGED <<observed, bootFrame>>

\* The three calls of schedule_task, in the order of the code; then
\* bot.set_my_commands is called.
NewScheduleTask ==
  /\ boot.pc = "tasks"
  /\ LET scheduled == Append(boot.scheduled, TaskOrder[Len(boot.scheduled) + 1])
     IN boot' = [pc |-> IF Len(scheduled) = Len(TaskOrder) THEN "commands" ELSE "tasks",
                 scheduled |-> scheduled]
  /\ UNCHANGED <<shared, observed, bootFrame>>

\* bot.set_my_commands(...).await? and the build of the dispatcher.
SetMyCommands(ok) ==
  /\ boot.pc = "commands"
  /\ boot' = [boot EXCEPT !.pc = IF ok THEN "built" ELSE "failed"]
  /\ UNCHANGED <<shared, observed, bootFrame>>

\* Congratulator::listen: the dispatcher starts to run handlers.
Listen ==
  /\ boot.pc = "built"
  /\ boot' = [boot EXCEPT !.pc = "listening"]
  /\ UNCHANGED <<shared, observed, bootFrame>>

\* One execution of the fetcher task (do_update): the fetched Dashboard
\* replaces the shared one, a failed fetch leaves it alone.
DoUpdate(result) ==
  /\ \E i \in 1..Len(boot.scheduled) : boot.scheduled[i] = "fetcher"
  /\ shared' = IF result.kind = "Ok" THEN Some(result.value) ELSE shared
  /\ UNCHANGED <<boot, observed, bootFrame>>

\* A read of the shared Dashboard, recorded.
Observe(reader) ==
  /\ Len(observed) < MaxReads
  /\ observed' = Append(observed, [by |-> reader, dashboard |-> shared])
  /\ UNCHANGED <<boot, shared, bootFrame>>

\* One execution of the sender task (send_summary): dashboard.read().
SendSummary ==
  /\ \E i \in 1..Len(boot.scheduled) : boot.scheduled[i] = "sender"
  /\ Observe("sender")

\* A query handler the dispatcher runs: locked_dashboard.read().
DispatchHandler ==
  /\ boot.pc = "listening"
  /\ Observe("handler")

BootInit ==
  /\ EngineIdle
  /\ InitIdle
  /\ CursorIdle
  /\ IngestIdle
  /\ ParseIdle
  /\ QueryIdle
  /\ ClockIdle
  /\ BootIdle

BootNext ==
  \/ \E ok \in BOOLEAN : NewHub(ok)
  \/ \E result \in FetchDashboardResults : NewDashboard(result)
  \/ NewScheduleTask
  \/ \E ok \in BOOLEAN : SetMyCommands(ok)
  \/ Listen
  \/ \E result \in FetchDashboardResults : DoUpdate(result)
  \/ SendSummary
  \/ DispatchHandler

BootSpec == BootInit /\ [][BootNext]_vars

\* The shared Dashboard exists and holds tables.
Populated(lock) == IsSome(lock) /\ IsSome(Unwrap(lock).score_tables)

\* C32: every read of the shared Dashboard by a task or a handler observes a
\* populated one: tasks are scheduled and handlers run only after the first
\* fetch_dashboard succeeded, a failure of it ends Congratulator::new with
\* no task scheduled, and no refresh makes a populated Dashboard absent.
C32_PopulatedReads ==
  [][/\ \A i \in 1..Len(observed') : Populated(observed'[i].dashboard)
     /\ (boot'.scheduled # <<>> \/ boot'.pc = "listening") => Populated(shared')
     /\ (boot.pc = "dashboard" /\ boot'.pc = "failed") =>
          (boot'.scheduled = <<>> /\ shared' = NoValue)
     /\ Populated(shared) => Populated(shared')]_vars

C32_Witness ==
  /\ boot.pc = "listening"
  /\ \E i, j, k \in 1..Len(observed) :
       /\ observed[i].by = "sender"
       /\ observed[j].by = "handler"
       /\ observed[k].dashboard # observed[1].dashboard


\* The caller waits in the queue of the lock.
Queued(l, c) == \E k \in 1..Len(l.queue) : l.queue[k] = c

\* C33: an execution of do_update holds the write lock only between the
\* grant of dashboard.write() and the assignment: it holds and awaits no
\* lock while the titles or a window are fetched, its step out of the
\* locked position is the whole-value assignment, and that step releases the
\* lock and ends the execution.
C33_WriteLockOnlyForAssignment ==
  [][\A i \in 1..Len(jobs'["fetcher"]) :
       LET c == <<"fetcher", i>>
       IN /\ c \notin rw'.readers
          /\ (c \in rw'.writers) <=> (jobs'["fetcher"][i].pc = "locked")
          /\ jobs'["fetcher"][i].pc \in {"titles", "window"} =>
               (c \notin rw'.writers /\ ~Queued(rw', c))
          /\ (/\ i <= Len(jobs["fetcher"])
              /\ c \in rw.writers
              /\ jobs'["fetcher"][i].pc # "locked") =>
               /\ dashboard' = jobs["fetcher"][i].tables
               /\ c \notin rw'.writers
               /\ jobs'["fetcher"][i].pc = "sleeping"
               /\ last' = Outcome("fetcher", TRUE)]_vars

C33_Witness ==
  \E i \in 1..Len(jobs["fetcher"]) :
    /\ Job("fetcher", i).pc = "locked"
    /\ <<"fetcher", i>> \in rw.writers
    /\ Job("fetcher", i).tables # dashboard
    /\ rw.queue # <<>>


\* The columns and the rows of the sheet a built request asks for: a
\* GridRange is half-open, its end indices are exclusive.
GridOf(req) == req.data_filters[1].grid_range
GridColumns(req) ==
  Unwrap(GridOf(req).start_column_index)..(Unwrap(GridOf(req).end_column_index) - 1)
GridRows(req) ==
  Unwrap(GridOf(req).start_row_index)..(Unwrap(GridOf(req).end_row_index) - 1)

\* The request of step k: a new request advanced k times.
RECURSIVE StepRequest(_, _)
StepRequest(req, k) == IF k = 0 THEN req ELSE next_table_request(StepRequest(req, k - 1))

\* C34: the window of step k covers the 9 columns 1+10k .. 9+10k and the
\* rows of every other window, and windows of different steps share no column.
C34_Windows ==
  LET first == NewRequest(request.sheet_id, request.include_grid_data)
      window(k) == build(StepRequest(first, k))
  IN /\ request = StepRequest(first, advances)
     /\ \A k \in 0..MaxAdvances :
          /\ GridColumns(window(k)) = (1 + 10 * k)..(9 + 10 * k)
          /\ Cardinality(GridColumns(window(k))) = 9
          /\ GridRows(window(k)) = GridRows(window(0))
          /\ \A j \in 0..MaxAdvances :
               j # k => GridColumns(window(j)) \cap GridColumns(window(k)) = {}
     /\ IsSome(built) =>
          \E k \in 0..advances :
            /\ GridColumns(Unwrap(built)) = (1 + 10 * k)..(9 + 10 * k)
            /\ GridRows(Unwrap(built)) = 3..34

\* The window of the third step was built.
C34_Witness ==
  /\ advances = 2
  /\ IsSome(built)
  /\ GridColumns(Unwrap(built)) = 21..29


\* The cycle ended with a Dashboard.
Succeeded(c) == c.pc = "done" /\ IsSome(c.result) /\ Unwrap(c.result).kind = "Ok"

\* C35: a cycle fetches the titles once, before any window; the window of
\* a fetch starts at column 1+10i, i being the tables accepted so far; an
\* accepted table is appended and the request advanced once, a failure or
\* the terminator leaves the request alone; so a cycle that succeeds with n
\* tables has fetched n+1 windows and advanced the request n times, and its
\* Dashboard holds the tables in the order of their windows.
C35_FetchesAndOrder ==
  [][/\ titles' # titles =>
          (cycle.pc = "idle" /\ titles = NoValue /\ cycle'.fetches = 0 /\ advances' = 0)
     /\ WindowFetched =>
          /\ IsSome(titles)
          /\ titles' = titles
          /\ GridColumns(Unwrap(built')) =
               (1 + 10 * Len(cycle.tables))..(9 + 10 * Len(cycle.tables))
          /\ IF Len(cycle'.tables) # Len(cycle.tables)
             THEN /\ cycle'.tables =
                       Append(cycle.tables, fetch_score_table(Unwrap(block'), FALSE).value)
                  /\ advances' = advances + 1
                  /\ request'.start_column_index = request.start_column_index + 10
                  /\ request'.end_column_index = request.end_column_index + 10
                  /\ cycle'.pc = "loop"
             ELSE /\ advances' = advances
                  /\ request' = request
                  /\ cycle'.pc \in {"done", "panicked"}
     /\ ~WindowFetched => cycle'.tables = cycle.tables
     /\ Succeeded(cycle') =>
          /\ cycle'.fetches = Len(cycle'.tables) + 1
          /\ advances' = Len(cycle'.tables)
          /\ Unwrap(cycle'.result).value.score_tables = Some(cycle'.tables)]_vars

\* A cycle that succeeded with the tables of two persons, after three
\* window fetches.
C35_Witness ==
  /\ Succeeded(cycle)
  /\ Len(cycle.tables) = 2
  /\ cycle.fetches = 3
  /\ advances = 2
  /\ cycle.tables[1].person # cycle.tables[2].person


\* ---------------------------------------------------------------- a cycle over one sheet
\* The blocks of a sheet, every COLUMN_OFFSET columns from the first
\* window's start: what the window fetches of one cycle are answered with.

NamedRow(name) == RowData(Some(<<NameCell(Some(name))>>))

\* Blocks with a name: two that yield a table (one Record of an empty row,
\* no Record), one with a date cell without a value, which does not parse,
\* one with a date cell of an untyped format; and a fetch the remote answers
\* with an error.
SourceBlocks ==
  { Window(<<NamedRow(Ann), RowData(Some(<<>>))>>),
    Window(<<NamedRow(Bob)>>),
    Window(<<NamedRow(Ann), RowData(Some(<<Cell(NoValue, NoValue, TypedFormat("DATE"))>>))>>),
    Window(<<NamedRow(Bob), RowData(Some(SubSeq(UntypedDateRow, 1, 1)))>>),
    Err("remote") }

\* Blocks whose name cell has no value, empty or followed by data.
Terminators ==
  { Window(<<RowData(Some(<<NameCell(NoValue)>>))>>),
    Window(<<RowData(Some(<<NameCell(NoValue), NameCell(Some(<<"x">>))>>)),
             RowData(Some(ExampleRow))>>) }

\* Sheets of finitely many such blocks and then one without a name.
Sources ==
  {named \o <<unnamed>> :
     named \in TuplesUpTo(SourceBlocks, MaxFetches - 1), unnamed \in Terminators}

\* The block of the sheet the request's window shows.
WindowOf(req) == ((req.start_column_index - INITIAL_START_COLUMN_INDEX) \div COLUMN_OFFSET) + 1

\* One turn of the loop: the window of the request is fetched from the sheet.
FetchSourceWindow ==
  /\ WindowOf(request) \in 1..Len(source)
  /\ FetchWindow(source[WindowOf(request)])

SourceInit ==
  /\ EngineIdle
  /\ InitIdle
  /\ CursorIdle
  /\ IngestIdle
  /\ ParseIdle
  /\ QueryIdle
  /\ ClockIdle
  /\ boot = [pc |-> "new", scheduled |-> <<>>]
  /\ shared = NoValue
  /\ observed = <<>>
  /\ source \in Sources

SourceNext ==
  \/ \E response \in TitleResponses : FetchTitles(response)
  \/ FetchSourceWindow

SourceSpec == SourceInit /\ [][SourceNext]_vars

\* Every fetch returns: a cycle that can take its next step takes it.
SourceLive == SourceSpec /\ WF_vars(SourceNext)

\* The cycle is over: fetch_dashboard returned, or unwound.
Ended == cycle.pc \in {"done", "panicked"}

\* The first block of the sheet that yields no table.
FirstStop(blocks) ==
  CHOOSE k \in 1..Len(blocks) :
    /\ fetch_score_table(blocks[k], FALSE).kind # "Ok"
    /\ \A j \in 1..(k - 1) : fetch_score_table(blocks[j], FALSE).kind = "Ok"

\* C36: over a sheet of finitely many named blocks and then a block whose
\* name cell is absent, the cycle ends; it leaves the loop only at a window
\* that yields no table (the block without a name, or a failure), never
\* because of a count of its own; and when every named block yields a table
\* it ends with success and that many tables.
C36_Terminates ==
  /\ <>Ended
  /\ [][(cycle.pc = "loop" /\ cycle'.pc # "loop") =>
          /\ fetch_score_table(Unwrap(block'), FALSE).kind # "Ok"
          /\ cycle'.fetches = FirstStop(source)
          /\ (cycle'.pc = "done" /\ Unwrap(cycle'.result).kind = "Ok") <=>
               FirstStop(source) = Len(source)]_vars
  /\ [](Ended /\ cycle.fetches > 0 =>
          /\ Len(cycle.tables) = FirstStop(source) - 1
          /\ \A k \in 1..Len(cycle.tables) :
               cycle.tables[k] = fetch_score_table(source[k], FALSE).value
          /\ FirstStop(source) = Len(source) =>
               cycle.result = Some(Ok([score_tables |-> Some(cycle.tables)])))

\* A cycle over two named blocks and the block without a name ended with
\* the two tables.
C36_Witness ==
  /\ Len(source) = 3
  /\ cycle.pc = "done"
  /\ cycle.fetches = 3
  /\ Len(cycle.tables) = 2
  /\ IsSome(cycle.result)
  /\ Unwrap(cycle.result).kind = "Ok"


\* is_finished of task t in the state after the step.
FinishedAfter(t) ==
  IF handle'[t] = None THEN TRUE ELSE jobs'[t][handle'[t]].st = "finished"

\* C37: submit_job is reached, through schedule, only in a state where
\* is_finished holds of the task, whichever of the three tasks it is; and no
\* step of the task's job, of the runtime or of cancel makes is_finished
\* false again between the guard of schedule and the assertion: only the
\* submission itself does.
C37_SubmitAsserts ==
  [][\A t \in TaskIds :
       /\ Len(jobs'[t]) # Len(jobs[t]) =>
            /\ is_finished(t)
            /\ Len(jobs'[t]) = Len(jobs[t]) + 1
            /\ handle'[t] = Len(jobs'[t])
            /\ ret' = TRUE
       /\ (is_finished(t) /\ Len(jobs'[t]) = Len(jobs[t])) => FinishedAfter(t)]_vars

\* The sender task was submitted a second time, after its first job was
\* cancelled and dropped.
C37_Witness ==
  /\ Len(jobs["sender"]) = 2
  /\ handle["sender"] = 2
  /\ jobs["sender"][1].st = "finished"
  /\ jobs["sender"][2].st = "live"
  /\ ret = TRUE


\* The cells the row has all parse, each as its column is parsed.
PresentParse(cells) == \A i \in 0..(Len(cells) - 1) : CellOutcome(cells, i).kind = "Ok"

\* C38: a row of fewer than 9 cells whose cells all parse yields a Record:
\* the columns it has give their fields, every missing column leaves the
\* default (the date 1970-01-01, a category score 0, the total 0 and so no
\* total, the percentage 0); the empty row yields the placeholder Record.
C38_ShortRow ==
  \A n \in 1..Len(parsed) :
    (Len(row) < 9 /\ PresentParse(row)) =>
      /\ parsed[n].kind = "Ok"
      /\ LET rec == parsed[n].value IN
           /\ rec.date = IF Len(row) > 0 THEN CellOutcome(row, 0).value ELSE Date(1970, 1, 1)
           /\ \A i \in 1..7 :
                ScoreOf(rec, i) = IF Len(row) > i THEN CellOutcome(row, i).value ELSE 0
           /\ rec.percent = [value |-> 0]
           /\ Len(row) < 8 => ~has_total(rec)
           /\ Len(row) = 0 =>
                /\ rec = DefaultRecord
                /\ rec = [ date |-> Date(1970, 1, 1),
                           scores |-> [ sport |-> 0, professional_growth |-> 0, health |-> 0,
                                        spiritual_growth |-> 0, foreign_language |-> 0,
                                        personal_dev |-> 0 ],
                           total_score |-> 0,
                           percent |-> [value |-> 0] ]

\* A row of a date and two scores was parsed into a Record without a total.
C38_Witness ==
  /\ Len(row) = 3
  /\ PresentParse(row)
  /\ parsed # <<>>
  /\ parsed[1].kind = "Ok"
  /\ parsed[1].value.date = Date(2024, 3, 1)
  /\ parsed[1].value.scores.sport = 500
  /\ parsed[1].value.scores.health = 0
  /\ ~has_total(parsed[1].value)


\* The name row of the block is accepted: its first cell has a value.
NameAccepted(response) ==
  HasNameCell(response) /\ IsSome(NameCellOf(response).formatted_value)

\* The data rows of the block without a cell list.
AbsentRows(response) ==
  {k \in 1..(Len(RowsOf(response)) - 1) : ~IsSome(RowsOf(response)[k + 1].values)}

\* The loop of fetch_score_table, given the flag, gets as far as data row k:
\* no earlier data row ended the call.
Reached(response, k, flag) ==
  \A j \in 1..(k - 1) :
    /\ IsSome(RowsOf(response)[j + 1].values)
    /\ LET record == from_vec(Unwrap(RowsOf(response)[j + 1].values)) IN
         record.kind = "Ok" \/ (flag /\ record.kind = "Err")

\* C39: a data row without a cell list ends fetch_score_table with
\* EmptyCellData, the downgrade flag on or off, when the loop gets as far as
\* the row; when an earlier data row ends the call, the outcome is that
\* row's and not EmptyCellData.
C39_AbsentDataRow ==
  (/\ IsSome(score_table)
   /\ NameAccepted(Unwrap(block))
   /\ AbsentRows(Unwrap(block)) # {}) =>
    LET response == Unwrap(block)
        k == CHOOSE k \in AbsentRows(response) : \A j \in AbsentRows(response) : k <= j
    IN IF Reached(response, k, skip_arg)
       THEN Unwrap(score_table) = Err(InvalidFetchedData("EmptyCellData"))
       ELSE Unwrap(score_table) # Err(InvalidFetchedData("EmptyCellData"))

\* With the flag on, a row that does not parse was downgraded and the next
\* row, without a cell list, ended the call.
C39_Witness ==
  /\ IsSome(score_table)
  /\ skip_arg
  /\ NameAccepted(Unwrap(block))
  /\ AbsentRows(Unwrap(block)) = {2}
  /\ from_vec(Unwrap(RowsOf(Unwrap(block))[2].values)).kind = "Err"
  /\ Unwrap(score_table) = Err(InvalidFetchedData("EmptyCellData"))

====
